---- MODULE Spec2Model ----
(***************************************************************************)
(* cospend-cli: the cache store, the name/ID resolver and the list         *)
(* command's filter engine, modelled from the Go sources.                  *)
(*                                                                         *)
(* Go strings are sequences of characters, each character a one-element    *)
(* TLA+ string; a non-ASCII character is written "U+XXXX".  Go slices are  *)
(* records [isNil, elems], so that a nil slice and an empty one differ as  *)
(* they do for encoding/json.                                              *)
(***************************************************************************)
EXTENDS Integers, Sequences, FiniteSets, TLC

VARIABLES
    \* resolver calls (internal/cache: Resolve*)
    rProject,     \* the *api.Project handed to the resolver
    rToken,       \* the user-supplied token
    rResult,      \* what the last resolver call returned
    \* the cache store (internal/cache: Load, Save, LoadUserInfo, SaveUserInfo)
    now,          \* the wall clock, in hours
    fs,           \* the cache directory and the files in it
    lastSave,     \* per project ID: the last successful Save, while its file is untouched
    ret,          \* what the cache call just made returned
    \* the filter engine (cmd: applyFilters)
    fBills,       \* the bills handed to applyFilters
    fFilters,     \* the filters handed to applyFilters
    fResult,      \* what applyFilters returned
    \* the list command (cmd: runList)
    startDate,    \* the date at hour 0 of the wall clock, which is 22:00 of that day
    cmd,          \* the command line being run, the fault and the clock of that run
    outcome,      \* what the run returned, requested, warned and selected
    \* a Load racing with Saves of the same project ID (os.ReadFile, os.WriteFile)
    disk,         \* the cache file of the project, as the blocks of text in it
    writers,      \* per saving process: where it is in Save, and its project
    reader,       \* the loading process: where it is in Load, its buffer and result
    \* the reverse currency lookup (internal/cache: SymbolToISO)
    symbolToISOMap,  \* the package variable of the running process, nil before the first call
    isoSeen,      \* per symbol: the codes that calls in this or an earlier process returned
    \* the filter expressions of the list command (cmd: parse*Filter, parseRecent, buildFilters)
    dateNow,      \* the date of time.Now()
    parsed,       \* the expression last parsed, what came of it and the bills it selects
    \* the project as the server sends it (internal/api: Project.UnmarshalJSON)
    wire,         \* the JSON of the response to GetProject
    idsSeen,      \* the IDs that resolving rToken returned in this or an earlier run
    \* the output of the list command (cmd: resolveBillNames)
    listLimit,    \* the value of --limit
    \* the login flow (cmd: pollForLogin)
    poll          \* where pollForLogin is, the seconds since it started, what it returned

resolveVars == <<rProject, rToken, rResult>>
cacheVars == <<now, fs, lastSave, ret>>
filterVars == <<fBills, fFilters, fResult>>
listVars == <<startDate, cmd, outcome>>
raceVars == <<disk, writers, reader>>
symbolVars == <<symbolToISOMap, isoSeen>>
parseVars == <<dateNow, parsed>>
wireVars == <<wire, idsSeen>>
loginVars == <<listLimit, poll>>
vars == <<rProject, rToken, rResult, now, fs, lastSave, ret, fBills, fFilters, fResult,
          startDate, cmd, outcome, disk, writers, reader, symbolToISOMap, isoSeen,
          dateNow, parsed, wire, idsSeen, listLimit, poll>>

----------------------------------------------------------------------------
(* Bounds of the model *)

\* most entities in one reference collection (IDs are 1..MaxColl)
MaxColl == 2

\* the clock stops at MaxTime hours
MaxTime == 3

\* most bills in a list, and most filters applied to it
MaxBills == 3
MaxFilters == 2

\* most processes that save the same project while one loads it
MaxWriters == 2

----------------------------------------------------------------------------
(* strings, strconv *)

UpperToLower ==
    [c \in {"A","B","C","D","E","F","G","H","I","J","K","L","M",
            "N","O","P","Q","R","S","T","U","V","W","X","Y","Z"} |->
        CASE c = "A" -> "a" [] c = "B" -> "b" [] c = "C" -> "c" [] c = "D" -> "d"
          [] c = "E" -> "e" [] c = "F" -> "f" [] c = "G" -> "g" [] c = "H" -> "h"
          [] c = "I" -> "i" [] c = "J" -> "j" [] c = "K" -> "k" [] c = "L" -> "l"
          [] c = "M" -> "m" [] c = "N" -> "n" [] c = "O" -> "o" [] c = "P" -> "p"
          [] c = "Q" -> "q" [] c = "R" -> "r" [] c = "S" -> "s" [] c = "T" -> "t"
          [] c = "U" -> "u" [] c = "V" -> "v" [] c = "W" -> "w" [] c = "X" -> "x"
          [] c = "Y" -> "y" [] c = "Z" -> "z"]

\* strings.ToLower
ToLower(s) ==
    [i \in 1..Len(s) |-> IF s[i] \in DOMAIN UpperToLower THEN UpperToLower[s[i]] ELSE s[i]]

\* strings.Contains
Contains(s, substr) ==
    \E i \in 1..(Len(s) - Len(substr) + 1) : SubSeq(s, i, i + Len(substr) - 1) = substr

Digits == {"0","1","2","3","4","5","6","7","8","9"}

DigitVal(c) ==
    CASE c = "0" -> 0 [] c = "1" -> 1 [] c = "2" -> 2 [] c = "3" -> 3 [] c = "4" -> 4
      [] c = "5" -> 5 [] c = "6" -> 6 [] c = "7" -> 7 [] c = "8" -> 8 [] c = "9" -> 9

RECURSIVE DecimalVal(_)
DecimalVal(s) ==
    IF s = <<>> THEN 0 ELSE 10 * DecimalVal(SubSeq(s, 1, Len(s) - 1)) + DigitVal(s[Len(s)])

\* strconv.Atoi: an optional sign, then one or more decimal digits
Atoi(s) ==
    LET signed == Len(s) > 0 /\ s[1] \in {"+", "-"}
        body   == IF signed THEN Tail(s) ELSE s
    IN  IF body # <<>> /\ \A i \in 1..Len(body) : body[i] \in Digits
        THEN [err |-> FALSE,
              val |-> IF signed /\ s[1] = "-" THEN -DecimalVal(body) ELSE DecimalVal(body)]
        ELSE [err |-> TRUE, val |-> 0]

\* the index at which a "for i := range ...; if cond { return }" loop returns
FirstIndex(S) == CHOOSE i \in S : \A j \in S : i <= j

----------------------------------------------------------------------------
(* internal/cache: the currency table *)

currencyCodeToSymbol ==
       (<<"a", "e", "d">> :> <<"U+062F", ".", "U+0625">>)
    @@ (<<"a", "f", "n">> :> <<"U+060B">>)
    @@ (<<"a", "l", "l">> :> <<"L", "e", "k">>)
    @@ (<<"a", "m", "d">> :> <<"U+0564", "U+0580", ".">>)
    @@ (<<"a", "r", "s">> :> <<"$">>)
    @@ (<<"a", "u", "d">> :> <<"$">>)
    @@ (<<"a", "z", "n">> :> <<"U+043C", "U+0430", "U+043D", ".">>)
    @@ (<<"b", "a", "m">> :> <<"K", "M">>)
    @@ (<<"b", "d", "t">> :> <<"U+09F3">>)
    @@ (<<"b", "g", "n">> :> <<"U+043B", "U+0432", ".">>)
    @@ (<<"b", "h", "d">> :> <<"U+062F", ".", "U+0628", ".">>)
    @@ (<<"b", "i", "f">> :> <<"F", "B", "u">>)
    @@ (<<"b", "n", "d">> :> <<"$">>)
    @@ (<<"b", "o", "b">> :> <<"B", "s">>)
    @@ (<<"b", "r", "l">> :> <<"R", "$">>)
    @@ (<<"b", "w", "p">> :> <<"P">>)
    @@ (<<"b", "y", "n">> :> <<"U+0440", "U+0443", "U+0431", ".">>)
    @@ (<<"b", "z", "d">> :> <<"$">>)
    @@ (<<"c", "a", "d">> :> <<"$">>)
    @@ (<<"c", "d", "f">> :> <<"F", "r", "C", "D">>)
    @@ (<<"c", "h", "f">> :> <<"C", "H", "F">>)
    @@ (<<"c", "l", "p">> :> <<"$">>)
    @@ (<<"c", "n", "y">> :> <<"U+00A5">>)
    @@ (<<"c", "o", "p">> :> <<"$">>)
    @@ (<<"c", "r", "c">> :> <<"U+20A1">>)
    @@ (<<"c", "u", "p">> :> <<"$">>)
    @@ (<<"c", "v", "e">> :> <<"C", "V", "$">>)
    @@ (<<"c", "z", "k">> :> <<"K", "U+010D">>)
    @@ (<<"d", "j", "f">> :> <<"F", "d", "j">>)
    @@ (<<"d", "k", "k">> :> <<"k", "r">>)
    @@ (<<"d", "o", "p">> :> <<"R", "D", "$">>)
    @@ (<<"d", "z", "d">> :> <<"U+062F", ".", "U+062C", ".">>)
    @@ (<<"e", "g", "p">> :> <<"U+062C", ".", "U+0645", ".">>)
    @@ (<<"e", "t", "b">> :> <<"B", "r">>)
    @@ (<<"e", "u", "r">> :> <<"U+20AC">>)
    @@ (<<"g", "b", "p">> :> <<"U+00A3">>)
    @@ (<<"g", "e", "l">> :> <<"G", "E", "L">>)
    @@ (<<"g", "h", "s">> :> <<"G", "H", "U+20B5">>)
    @@ (<<"g", "n", "f">> :> <<"F", "G">>)
    @@ (<<"g", "t", "q">> :> <<"Q">>)
    @@ (<<"h", "k", "d">> :> <<"$">>)
    @@ (<<"h", "n", "l">> :> <<"L">>)
    @@ (<<"h", "u", "f">> :> <<"F", "t">>)
    @@ (<<"i", "d", "r">> :> <<"R", "p">>)
    @@ (<<"i", "l", "s">> :> <<"U+20AA">>)
    @@ (<<"i", "n", "r">> :> <<"U+20B9">>)
    @@ (<<"i", "q", "d">> :> <<"U+062F", ".", "U+0639", ".">>)
    @@ (<<"i", "r", "r">> :> <<"U+FDFC">>)
    @@ (<<"i", "s", "k">> :> <<"k", "r">>)
    @@ (<<"j", "m", "d">> :> <<"$">>)
    @@ (<<"j", "o", "d">> :> <<"U+062F", ".", "U+0623", ".">>)
    @@ (<<"j", "p", "y">> :> <<"U+00A5">>)
    @@ (<<"k", "e", "s">> :> <<"K", "s", "h">>)
    @@ (<<"k", "h", "r">> :> <<"U+17DB">>)
    @@ (<<"k", "m", "f">> :> <<"F", "C">>)
    @@ (<<"k", "r", "w">> :> <<"U+20A9">>)
    @@ (<<"k", "w", "d">> :> <<"U+062F", ".", "U+0643", ".">>)
    @@ (<<"k", "z", "t">> :> <<"U+0442", "U+04A3", "U+0433", ".">>)
    @@ (<<"l", "b", "p">> :> <<"U+0644", ".", "U+0644", ".">>)
    @@ (<<"l", "k", "r">> :> <<"R", "s">>)
    @@ (<<"l", "y", "d">> :> <<"U+062F", ".", "U+0644", ".">>)
    @@ (<<"m", "a", "d">> :> <<"U+062F", ".", "U+0645", ".">>)
    @@ (<<"m", "d", "l">> :> <<"M", "D", "L">>)
    @@ (<<"m", "g", "a">> :> <<"M", "G", "A">>)
    @@ (<<"m", "k", "d">> :> <<"M", "K", "D">>)
    @@ (<<"m", "m", "k">> :> <<"K">>)
    @@ (<<"m", "o", "p">> :> <<"M", "O", "P", "$">>)
    @@ (<<"m", "u", "r">> :> <<"M", "U", "R", "s">>)
    @@ (<<"m", "x", "n">> :> <<"$">>)
    @@ (<<"m", "y", "r">> :> <<"R", "M">>)
    @@ (<<"m", "z", "n">> :> <<"M", "T", "n">>)
    @@ (<<"n", "a", "d">> :> <<"N", "$">>)
    @@ (<<"n", "g", "n">> :> <<"U+20A6">>)
    @@ (<<"n", "i", "o">> :> <<"C", "$">>)
    @@ (<<"n", "o", "k">> :> <<"k", "r">>)
    @@ (<<"n", "p", "r">> :> <<"R", "s">>)
    @@ (<<"n", "z", "d">> :> <<"$">>)
    @@ (<<"o", "m", "r">> :> <<"U+0631", ".", "U+0639", ".">>)
    @@ (<<"p", "a", "b">> :> <<"B", "/", ".">>)
    @@ (<<"p", "e", "n">> :> <<"S", "/", ".">>)
    @@ (<<"p", "h", "p">> :> <<"U+20B1">>)
    @@ (<<"p", "k", "r">> :> <<"U+20A8">>)
    @@ (<<"p", "l", "n">> :> <<"z", "U+0142">>)
    @@ (<<"p", "y", "g">> :> <<"U+20B2">>)
    @@ (<<"q", "a", "r">> :> <<"U+0631", ".", "U+0642", ".">>)
    @@ (<<"r", "o", "n">> :> <<"R", "O", "N">>)
    @@ (<<"r", "s", "d">> :> <<"U+0434", "U+0438", "U+043D", ".">>)
    @@ (<<"r", "u", "b">> :> <<"U+20BD">>)
    @@ (<<"r", "w", "f">> :> <<"F", "R">>)
    @@ (<<"s", "a", "r">> :> <<"U+FDFC">>)
    @@ (<<"s", "d", "g">> :> <<"S", "D", "G">>)
    @@ (<<"s", "e", "k">> :> <<"k", "r">>)
    @@ (<<"s", "g", "d">> :> <<"$">>)
    @@ (<<"s", "o", "s">> :> <<"S", "s", "h">>)
    @@ (<<"t", "h", "b">> :> <<"U+0E3F">>)
    @@ (<<"t", "n", "d">> :> <<"U+062F", ".", "U+062A", ".">>)
    @@ (<<"t", "o", "p">> :> <<"T", "$">>)
    @@ (<<"t", "r", "y">> :> <<"U+20BA">>)
    @@ (<<"t", "t", "d">> :> <<"$">>)
    @@ (<<"t", "w", "d">> :> <<"N", "T", "$">>)
    @@ (<<"t", "z", "s">> :> <<"T", "S", "h">>)
    @@ (<<"u", "a", "h">> :> <<"U+20B4">>)
    @@ (<<"u", "g", "x">> :> <<"U", "S", "h">>)
    @@ (<<"u", "s", "d">> :> <<"$">>)
    @@ (<<"u", "y", "u">> :> <<"$">>)
    @@ (<<"u", "z", "s">> :> <<"U", "Z", "S">>)
    @@ (<<"v", "n", "d">> :> <<"U+20AB">>)
    @@ (<<"x", "a", "f">> :> <<"F", "C", "F", "A">>)
    @@ (<<"x", "c", "d">> :> <<"E", "C", "$">>)
    @@ (<<"x", "o", "f">> :> <<"C", "F", "A">>)
    @@ (<<"y", "e", "r">> :> <<"U+0631", ".", "U+064A", ".">>)
    @@ (<<"z", "a", "r">> :> <<"R">>)

----------------------------------------------------------------------------
(* internal/cache: SymbolToISO.  The map it builds on the first call of a   *)
(* process depends on the order in which range visits currencyCodeToSymbol, *)
(* which Go leaves unspecified and varies from one range to the next: of    *)
(* the codes that share a symbol, the one visited last stays in the map.    *)

\* strings.ToUpper
ToUpper(s) ==
    [i \in 1..Len(s) |->
        IF \E c \in DOMAIN UpperToLower : UpperToLower[c] = s[i]
        THEN CHOOSE c \in DOMAIN UpperToLower : UpperToLower[c] = s[i]
        ELSE s[i]]

preferred == << <<"u","s","d">>, <<"c","n","y">>, <<"g","b","p">>, <<"e","u","r">> >>

CurrencySymbols == { currencyCodeToSymbol[code] : code \in DOMAIN currencyCodeToSymbol }

CodesWithSymbol(sym) == { code \in DOMAIN currencyCodeToSymbol : currencyCodeToSymbol[code] = sym }

\* what the orders of a range over the table can differ in: for each of the
\* symbols in syms, which of its codes is visited last
RECURSIVE LastVisited(_)
LastVisited(syms) ==
    IF syms = {} THEN { <<>> }
    ELSE LET sym == CHOOSE x \in syms : TRUE
         IN  { (sym :> code) @@ rest :
                   code \in CodesWithSymbol(sym), rest \in LastVisited(syms \ {sym}) }

RangeOrders == LastVisited(CurrencySymbols)

\* "First pass: set all mappings (last write wins)"
firstPass(lastOf) == [sym \in CurrencySymbols |-> ToUpper(lastOf[sym])]

\* "Second pass: override with preferred codes", from preferred[i] on
RECURSIVE secondPass(_, _)
secondPass(m, i) ==
    IF i > Len(preferred) THEN m
    ELSE secondPass(IF preferred[i] \in DOMAIN currencyCodeToSymbol
                    THEN [m EXCEPT ![currencyCodeToSymbol[preferred[i]]] = ToUpper(preferred[i])]
                    ELSE m,
                    i + 1)

\* the function that symbolToISOOnce.Do runs, for one order of the range
buildSymbolToISOMap(lastOf) == secondPass(firstPass(lastOf), 1)

\* the part of SymbolToISO after symbolToISOOnce.Do
SymbolToISO(m, symbol) == IF symbol \in DOMAIN m THEN m[symbol] ELSE <<>>

----------------------------------------------------------------------------
(* internal/cache: the resolvers.  Each returns [id, err]: the (int, error) *)
(* pair of the Go function, with id = 0 under an error.                     *)

NotFound == [id |-> 0, err |-> TRUE]
Found(id) == [id |-> id, err |-> FALSE]

\* a bug: the external user ID is not compared
ResolveMemberNameOnly(project, username) ==
    LET lowerUsername == ToLower(username)
        ms   == project.Members.elems
        hits == {i \in 1..Len(ms) : ToLower(ms[i].Name) = lowerUsername}
    IN  IF hits # {} THEN Found(ms[FirstIndex(hits)].ID) ELSE NotFound

ResolveMember(project, username) ==
    LET lowerUsername == ToLower(username)
        ms   == project.Members.elems
        hits == {i \in 1..Len(ms) : \/ ToLower(ms[i].Name) = lowerUsername
                                    \/ ToLower(ms[i].UserID) = lowerUsername}
    IN  IF hits # {} THEN Found(ms[FirstIndex(hits)].ID) ELSE NotFound

\* a bug: the name is tried before the ID
ResolveCategoryNameFirst(project, nameOrID) ==
    LET coll      == project.Categories.elems
        n         == Atoi(nameOrID)
        byID      == {i \in 1..Len(coll) : ~n.err /\ coll[i].ID = n.val}
        lowerName == ToLower(nameOrID)
        exact     == {i \in 1..Len(coll) : ToLower(coll[i].Name) = lowerName}
        substr    == {i \in 1..Len(coll) : Contains(ToLower(coll[i].Name), lowerName)}
    IN  IF nameOrID = <<>> THEN NotFound
        ELSE IF exact # {} THEN Found(coll[FirstIndex(exact)].ID)
        ELSE IF byID # {} THEN Found(n.val)
        ELSE IF substr # {} THEN Found(coll[FirstIndex(substr)].ID)
        ELSE NotFound

ResolveCategory(project, nameOrID) ==
    LET coll      == project.Categories.elems
        n         == Atoi(nameOrID)
        byID      == {i \in 1..Len(coll) : ~n.err /\ coll[i].ID = n.val}
        lowerName == ToLower(nameOrID)
        exact     == {i \in 1..Len(coll) : ToLower(coll[i].Name) = lowerName}
        substr    == {i \in 1..Len(coll) : Contains(ToLower(coll[i].Name), lowerName)}
    IN  IF nameOrID = <<>> THEN NotFound
        ELSE IF byID # {} THEN Found(n.val)
        ELSE IF exact # {} THEN Found(coll[FirstIndex(exact)].ID)
        ELSE IF substr # {} THEN Found(coll[FirstIndex(substr)].ID)
        ELSE NotFound

\* a bug: a single pass that takes the first name containing the token
ResolvePaymentModeSubstrOnly(project, nameOrID) ==
    LET coll      == project.PaymentModes.elems
        n         == Atoi(nameOrID)
        byID      == {i \in 1..Len(coll) : ~n.err /\ coll[i].ID = n.val}
        lowerName == ToLower(nameOrID)
        substr    == {i \in 1..Len(coll) : Contains(ToLower(coll[i].Name), lowerName)}
    IN  IF nameOrID = <<>> THEN NotFound
        ELSE IF byID # {} THEN Found(n.val)
        ELSE IF substr # {} THEN Found(coll[FirstIndex(substr)].ID)
        ELSE NotFound

ResolvePaymentMode(project, nameOrID) ==
    LET coll      == project.PaymentModes.elems
        n         == Atoi(nameOrID)
        byID      == {i \in 1..Len(coll) : ~n.err /\ coll[i].ID = n.val}
        lowerName == ToLower(nameOrID)
        exact     == {i \in 1..Len(coll) : ToLower(coll[i].Name) = lowerName}
        substr    == {i \in 1..Len(coll) : Contains(ToLower(coll[i].Name), lowerName)}
    IN  IF nameOrID = <<>> THEN NotFound
        ELSE IF byID # {} THEN Found(n.val)
        ELSE IF exact # {} THEN Found(coll[FirstIndex(exact)].ID)
        ELSE IF substr # {} THEN Found(coll[FirstIndex(substr)].ID)
        ELSE NotFound

\* a bug: the currency code is tried before the name
ResolveCurrencyCodeFirst(project, nameOrID) ==
    LET coll      == project.Currencies.elems
        n         == Atoi(nameOrID)
        byID      == {i \in 1..Len(coll) : ~n.err /\ coll[i].ID = n.val}
        lowerName == ToLower(nameOrID)
        exact     == {i \in 1..Len(coll) : ToLower(coll[i].Name) = lowerName}
        bySymbol  == IF lowerName \in DOMAIN currencyCodeToSymbol
                     THEN {i \in 1..Len(coll) :
                               Contains(coll[i].Name, currencyCodeToSymbol[lowerName])}
                     ELSE {}
    IN  IF byID # {} THEN Found(n.val)
        ELSE IF bySymbol # {} THEN Found(coll[FirstIndex(bySymbol)].ID)
        ELSE IF exact # {} THEN Found(coll[FirstIndex(exact)].ID)
        ELSE NotFound

\* returns a *api.Currency: id is the ID of the currency pointed to
ResolveCurrency(project, nameOrID) ==
    LET coll      == project.Currencies.elems
        n         == Atoi(nameOrID)
        byID      == {i \in 1..Len(coll) : ~n.err /\ coll[i].ID = n.val}
        lowerName == ToLower(nameOrID)
        exact     == {i \in 1..Len(coll) : ToLower(coll[i].Name) = lowerName}
        bySymbol  == IF lowerName \in DOMAIN currencyCodeToSymbol
                     THEN {i \in 1..Len(coll) :
                               Contains(coll[i].Name, currencyCodeToSymbol[lowerName])}
                     ELSE {}
    IN  IF byID # {} THEN Found(coll[FirstIndex(byID)].ID)
        ELSE IF exact # {} THEN Found(coll[FirstIndex(exact)].ID)
        ELSE IF bySymbol # {} THEN Found(coll[FirstIndex(bySymbol)].ID)
        ELSE NotFound

----------------------------------------------------------------------------
(* Go slices *)

NilSlice == [isNil |-> TRUE, elems |-> <<>>]
Slice(s) == [isNil |-> FALSE, elems |-> s]

----------------------------------------------------------------------------
(* encoding/json values.  An object is a record of its members; a JSON      *)
(* string that holds a time in RFC 3339 form is written JTime.  File bytes  *)
(* that are not JSON at all are InvalidJSON.                                *)

JNull       == [t |-> "null"]
JString(s)  == [t |-> "string", v |-> s]
JNumber(n)  == [t |-> "number", v |-> n]
JTime(tm)   == [t |-> "time", v |-> tm]
JArray(s)   == [t |-> "array", v |-> s]
JObject(r)  == [t |-> "object", v |-> r]
\* an object decoded into a Go map, as the sequence of <<key, value>> pairs
\* in the order a range over that map visits them
JKeyed(kvs) == [t |-> "keyed", v |-> kvs]
InvalidJSON == [t |-> "invalid"]

HasKey(obj, k) == k \in DOMAIN obj.v

\* pointers
NilPtr == [isNil |-> TRUE]
Ptr(x) == [isNil |-> FALSE, val |-> x]

\* time.Time: the zero Time, or an instant in hours
ZeroTime == [zero |-> TRUE, t |-> 0]
At(t)    == [zero |-> FALSE, t |-> t]

\* the largest time.Duration (1<<63 - 1 ns), in whole hours
maxDuration == 2562047

\* time.Since, which saturates for the zero Time
Since(tm, t) == IF tm.zero THEN maxDuration ELSE t - tm.t

----------------------------------------------------------------------------
(* internal/api: Project and its JSON form.  The fields of Member, Category,*)
(* PaymentMode and Currency that the cache and the resolver only carry      *)
(* (Activated, Icon, Color, ExchangeRate) are left out.                     *)

MarshalMember(m) ==
    JObject([id |-> JNumber(m.ID), name |-> JString(m.Name), userid |-> JString(m.UserID)])

MarshalNamed(c) == JObject([id |-> JNumber(c.ID), name |-> JString(c.Name)])

\* a nil slice is marshalled as null, any other as an array
MarshalSlice(sl, Enc(_)) ==
    IF sl.isNil THEN JNull ELSE JArray([i \in 1..Len(sl.elems) |-> Enc(sl.elems[i])])

\* Project.MarshalJSON
MarshalProject(p) ==
    JObject([id           |-> JString(p.ID),
             name         |-> JString(p.Name),
             currencyname |-> JString(p.CurrencyName),
             members      |-> MarshalSlice(p.Members, MarshalMember),
             categories   |-> MarshalSlice(p.Categories, MarshalNamed),
             paymentmodes |-> MarshalSlice(p.PaymentModes, MarshalNamed),
             currencies   |-> MarshalSlice(p.Currencies, MarshalNamed)])

\* decoding one JSON object into a struct: an absent member leaves the zero value
IntField(obj, k) == IF HasKey(obj, k) /\ obj.v[k].t = "number" THEN obj.v[k].v ELSE 0
StrField(obj, k) == IF HasKey(obj, k) /\ obj.v[k].t = "string" THEN obj.v[k].v ELSE <<>>

UnmarshalMember(j) ==
    [ID |-> IntField(j, "id"), Name |-> StrField(j, "name"), UserID |-> StrField(j, "userid")]

UnmarshalNamed(j) == [ID |-> IntField(j, "id"), Name |-> StrField(j, "name")]

\* json.Unmarshal into a nil []T: null leaves it nil, an array fills it, and
\* anything else is an error that Project.UnmarshalJSON drops
UnmarshalSlice(j, Dec(_)) ==
    IF j.t = "array" THEN Slice([i \in 1..Len(j.v) |-> Dec(j.v[i])]) ELSE NilSlice

\* a bug: in the object form the record keeps the id of its value
parseCategoriesKeepsOwnID(data) ==
    IF data.t \in {"keyed", "null"}
    THEN LET obj == IF data.t = "null" THEN <<>> ELSE data.v
         IN  Slice([i \in 1..Len(obj) |-> UnmarshalNamed(obj[i][2])])
    ELSE IF data.t = "array" THEN Slice([i \in 1..Len(data.v) |-> UnmarshalNamed(data.v[i])])
    ELSE NilSlice

\* json.Unmarshal into a map[string]Category succeeds on an object and on
\* null (which leaves the map nil); only then is the array form tried
parseCategories(data) ==
    IF data.t \in {"keyed", "null"}
    THEN LET obj == IF data.t = "null" THEN <<>> ELSE data.v
         IN  Slice([i \in 1..Len(obj) |->
                      LET idStr == obj[i][1]
                          cat   == UnmarshalNamed(obj[i][2])
                      IN  IF ~Atoi(idStr).err THEN [cat EXCEPT !.ID = Atoi(idStr).val] ELSE cat])
    ELSE IF data.t = "array" THEN Slice([i \in 1..Len(data.v) |-> UnmarshalNamed(data.v[i])])
    ELSE NilSlice

parsePaymentModes(data) ==
    IF data.t \in {"keyed", "null"}
    THEN LET obj == IF data.t = "null" THEN <<>> ELSE data.v
         IN  Slice([i \in 1..Len(obj) |->
                      LET idStr == obj[i][1]
                          pm    == UnmarshalNamed(obj[i][2])
                      IN  IF ~Atoi(idStr).err THEN [pm EXCEPT !.ID = Atoi(idStr).val] ELSE pm])
    ELSE IF data.t = "array" THEN Slice([i \in 1..Len(data.v) |-> UnmarshalNamed(data.v[i])])
    ELSE NilSlice

\* Project.UnmarshalJSON on a JSON object; [err, val]
UnmarshalProject(data) ==
    IF data.t # "object" THEN [err |-> TRUE]
    ELSE [err |-> FALSE,
          val |-> [ID           |-> StrField(data, "id"),
                   Name         |-> StrField(data, "name"),
                   CurrencyName |-> StrField(data, "currencyname"),
                   Members      |-> IF HasKey(data, "members")
                                    THEN UnmarshalSlice(data.v.members, UnmarshalMember)
                                    ELSE NilSlice,
                   Currencies   |-> IF HasKey(data, "currencies")
                                    THEN UnmarshalSlice(data.v.currencies, UnmarshalNamed)
                                    ELSE NilSlice,
                   Categories   |-> IF HasKey(data, "categories")
                                    THEN parseCategories(data.v.categories)
                                    ELSE NilSlice,
                   PaymentModes |-> IF HasKey(data, "paymentmodes")
                                    THEN parsePaymentModes(data.v.paymentmodes)
                                    ELSE NilSlice]]

\* api.UserInfo
MarshalUserInfo(u) == JObject([locale |-> JString(u.Locale), language |-> JString(u.Language)])
UnmarshalUserInfo(j) == [Locale |-> StrField(j, "locale"), Language |-> StrField(j, "language")]

----------------------------------------------------------------------------
(* internal/cache: the store.  fs = [dir, files]: dir is the state of the   *)
(* cache directory ("absent", "present", or "blocked" when it does not      *)
(* exist and cannot be created), files maps a file name in it to            *)
(* [kind |-> "absent"], [kind |-> "unreadable"] (no permission to open it)  *)
(* or [kind |-> "bytes", text |-> <the JSON in it>].                        *)

cacheTTL == 1

Absent      == [kind |-> "absent"]
Unreadable  == [kind |-> "unreadable"]
Bytes(text) == [kind |-> "bytes", text |-> text]

\* os.MkdirAll on the cache directory; [err, fs]
MkdirAll(f) ==
    IF f.dir = "blocked" THEN [err |-> TRUE, fs |-> f]
    ELSE [err |-> FALSE, fs |-> [f EXCEPT !.dir = "present"]]

\* os.ReadFile; [err, data]
ReadFile(f, path) ==
    IF f.dir # "present" \/ f.files[path].kind # "bytes"
    THEN [err |-> TRUE, data |-> InvalidJSON]
    ELSE [err |-> FALSE, data |-> f.files[path].text]

\* os.WriteFile: creates the file or truncates it, then writes data; [err, fs]
WriteFile(f, path, data) ==
    IF f.dir # "present" \/ f.files[path].kind = "unreadable"
    THEN [err |-> TRUE, fs |-> f]
    ELSE [err |-> FALSE, fs |-> [f EXCEPT !.files[path] = Bytes(data)]]

jsonSuffix   == <<".", "j", "s", "o", "n">>
userInfoPath == <<"_", "u", "s", "e", "r", "i", "n", "f", "o">> \o jsonSuffix

\* getCachePath; [err, path, fs]
getCachePath(f, projectID) ==
    LET mk == MkdirAll(f)
    IN  [err |-> mk.err, path |-> projectID \o jsonSuffix, fs |-> mk.fs]

\* json.Unmarshal into a CachedProject; [err, Project, CachedAt]
UnmarshalCachedProject(data) ==
    LET proj == IF HasKey(data, "project") /\ data.v.project.t # "null"
                THEN UnmarshalProject(data.v.project)
                ELSE [err |-> FALSE]
        hasAt == HasKey(data, "cached_at") /\ data.v.cached_at.t # "null"
    IN  IF data.t # "object" THEN [err |-> TRUE, Project |-> NilPtr, CachedAt |-> ZeroTime]
        ELSE IF proj.err \/ (hasAt /\ data.v.cached_at.t # "time")
        THEN [err |-> TRUE, Project |-> NilPtr, CachedAt |-> ZeroTime]
        ELSE [err      |-> FALSE,
              Project  |-> IF "val" \in DOMAIN proj THEN Ptr(proj.val) ELSE NilPtr,
              CachedAt |-> IF hasAt THEN data.v.cached_at.v ELSE ZeroTime]

\* json.Unmarshal into a CachedUserInfo; [err, UserInfo, CachedAt]
UnmarshalCachedUserInfo(data) ==
    LET hasInfo == HasKey(data, "user_info") /\ data.v.user_info.t # "null"
        hasAt   == HasKey(data, "cached_at") /\ data.v.cached_at.t # "null"
    IN  IF data.t # "object" THEN [err |-> TRUE, UserInfo |-> NilPtr, CachedAt |-> ZeroTime]
        ELSE IF (hasInfo /\ data.v.user_info.t # "object")
                  \/ (hasAt /\ data.v.cached_at.t # "time")
        THEN [err |-> TRUE, UserInfo |-> NilPtr, CachedAt |-> ZeroTime]
        ELSE [err      |-> FALSE,
              UserInfo |-> IF hasInfo THEN Ptr(UnmarshalUserInfo(data.v.user_info)) ELSE NilPtr,
              CachedAt |-> IF hasAt THEN data.v.cached_at.v ELSE ZeroTime]

Miss(f) == [project |-> NilPtr, found |-> FALSE, fs |-> f]

\* a bug: an entry whose age equals the TTL counts as expired
LoadExpiresAtTTL(f, t, projectID) ==
    LET p      == getCachePath(f, projectID)
        rd     == ReadFile(p.fs, p.path)
        cached == UnmarshalCachedProject(rd.data)
    IN  IF p.err THEN Miss(f)
        ELSE IF rd.err THEN Miss(p.fs)
        ELSE IF cached.err THEN Miss(p.fs)
        ELSE IF Since(cached.CachedAt, t) >= cacheTTL THEN Miss(p.fs)
        ELSE [project |-> cached.Project, found |-> TRUE, fs |-> p.fs]

\* a bug: the age of the entry is not checked
LoadNoExpiry(f, t, projectID) ==
    LET p      == getCachePath(f, projectID)
        rd     == ReadFile(p.fs, p.path)
        cached == UnmarshalCachedProject(rd.data)
    IN  IF p.err THEN Miss(f)
        ELSE IF rd.err THEN Miss(p.fs)
        ELSE IF cached.err THEN Miss(p.fs)
        ELSE [project |-> cached.Project, found |-> TRUE, fs |-> p.fs]

\* Load at time t; [project, found, fs] (getCachePath may create the directory)
Load(f, t, projectID) ==
    LET p      == getCachePath(f, projectID)
        rd     == ReadFile(p.fs, p.path)
        cached == UnmarshalCachedProject(rd.data)
    IN  IF p.err THEN Miss(f)
        ELSE IF rd.err THEN Miss(p.fs)
        ELSE IF cached.err THEN Miss(p.fs)
        ELSE IF Since(cached.CachedAt, t) > cacheTTL THEN Miss(p.fs)
        ELSE [project |-> cached.Project, found |-> TRUE, fs |-> p.fs]

\* json.MarshalIndent of a CachedProject
MarshalCachedProject(cached) ==
    JObject([project   |-> IF cached.Project.isNil THEN JNull
                           ELSE MarshalProject(cached.Project.val),
             cached_at |-> JTime(cached.CachedAt)])

\* a bug: an existing cache file is kept as it is
SaveKeepsExisting(f, t, projectID, project) ==
    LET p      == getCachePath(f, projectID)
        cached == [Project |-> project, CachedAt |-> At(t)]
        wr     == WriteFile(p.fs, p.path, MarshalCachedProject(cached))
    IN  IF p.err THEN [err |-> TRUE, fs |-> f]
        ELSE IF p.fs.files[p.path].kind = "bytes" THEN [err |-> FALSE, fs |-> p.fs]
        ELSE [err |-> wr.err, fs |-> wr.fs]

\* Save at time t; [err, fs]
Save(f, t, projectID, project) ==
    LET p      == getCachePath(f, projectID)
        cached == [Project |-> project, CachedAt |-> At(t)]
        wr     == WriteFile(p.fs, p.path, MarshalCachedProject(cached))
    IN  IF p.err THEN [err |-> TRUE, fs |-> f]
        ELSE [err |-> wr.err, fs |-> wr.fs]

\* LoadUserInfo at time t; [userInfo, found] (the directory is not created)
LoadUserInfo(f, t) ==
    LET rd     == ReadFile(f, userInfoPath)
        cached == UnmarshalCachedUserInfo(rd.data)
    IN  IF rd.err THEN [userInfo |-> NilPtr, found |-> FALSE]
        ELSE IF cached.err THEN [userInfo |-> NilPtr, found |-> FALSE]
        ELSE IF Since(cached.CachedAt, t) > cacheTTL THEN [userInfo |-> NilPtr, found |-> FALSE]
        ELSE [userInfo |-> cached.UserInfo, found |-> TRUE]

MarshalCachedUserInfo(cached) ==
    JObject([user_info |-> IF cached.UserInfo.isNil THEN JNull
                           ELSE MarshalUserInfo(cached.UserInfo.val),
             cached_at |-> JTime(cached.CachedAt)])

\* SaveUserInfo at time t; [err, fs]
SaveUserInfo(f, t, userInfo) ==
    LET mk     == MkdirAll(f)
        cached == [UserInfo |-> userInfo, CachedAt |-> At(t)]
        wr     == WriteFile(mk.fs, userInfoPath, MarshalCachedUserInfo(cached))
    IN  IF mk.err THEN [err |-> TRUE, fs |-> f]
        ELSE [err |-> wr.err, fs |-> wr.fs]

----------------------------------------------------------------------------
(* os: the cache file of one project as concurrent processes see it.  The   *)
(* text that Save writes is cut into blocks, one per member of the project  *)
(* object in the order Project.MarshalJSON writes them, and a last one with *)
(* cached_at and the closing braces; a file is [exists, data], data the     *)
(* blocks in it.  Each system call (open, fstat, read, write) is one step.  *)

projectFields ==
    << "id", "name", "currencyname", "members", "categories", "paymentmodes", "currencies" >>

\* the blocks of json.MarshalIndent(cached) for a project that is not nil
FileBlocks(json) ==
    [i \in 1..Len(projectFields) |->
        [key |-> projectFields[i], v |-> json.v.project.v[projectFields[i]]]]
    \o << [key |-> "cached_at", v |-> json.v.cached_at] >>

\* the JSON value of the bytes read: the blocks of one whole object, each
\* member in its place, or not JSON at all (the text ends early, or goes on
\* after the closing brace)
ParseBlocks(blocks) ==
    IF /\ Len(blocks) = Len(projectFields) + 1
       /\ \A i \in 1..Len(projectFields) : blocks[i].key = projectFields[i]
       /\ blocks[Len(blocks)].key = "cached_at"
    THEN JObject([project   |-> JObject([k \in {projectFields[i] : i \in 1..Len(projectFields)} |->
                                            LET i == CHOOSE j \in 1..Len(projectFields) :
                                                         projectFields[j] = k
                                            IN  blocks[i].v]),
                  cached_at |-> blocks[Len(blocks)].v])
    ELSE InvalidJSON

NoFile == [exists |-> FALSE, data |-> <<>>]

\* os.OpenFile(name, O_WRONLY|O_CREATE|O_TRUNC, perm) in os.WriteFile
OpenTruncate(file) == [exists |-> TRUE, data |-> <<>>]

\* f.Write(blocks) on a descriptor at offset 0: what was in the file beyond
\* the blocks written stays
WriteBlocks(file, blocks) ==
    [exists |-> TRUE,
     data   |-> [i \in 1..(IF Len(file.data) > Len(blocks) THEN Len(file.data) ELSE Len(blocks)) |->
                    IF i <= Len(blocks) THEN blocks[i] ELSE file.data[i]]]

\* f.Read(buf) on a descriptor at offset off and a buffer with room for n blocks
ReadBlocks(file, off, n) ==
    SubSeq(file.data, off + 1, IF off + n < Len(file.data) THEN off + n ELSE Len(file.data))

\* os.ReadFile reads into a buffer of the size fstat reports plus one, and of
\* at least 512 bytes, which is the first minReadBlocks blocks of a cache file
minReadBlocks == 4

ReadFileCap(file) ==
    IF Len(file.data) + 1 < minReadBlocks THEN minReadBlocks ELSE Len(file.data) + 1

----------------------------------------------------------------------------
(* cmd: parsing the list command's filter expressions *)

\* strings.TrimSpace (the only white space in the model's strings is " ")
RECURSIVE TrimLeft(_)
TrimLeft(s) == IF s # <<>> /\ Head(s) = " " THEN TrimLeft(Tail(s)) ELSE s

RECURSIVE TrimRight(_)
TrimRight(s) ==
    IF s # <<>> /\ s[Len(s)] = " " THEN TrimRight(SubSeq(s, 1, Len(s) - 1)) ELSE s

TrimSpace(s) == TrimRight(TrimLeft(s))

HasPrefix(s, prefix) == Len(s) >= Len(prefix) /\ SubSeq(s, 1, Len(prefix)) = prefix

\* the regular expression ^(>=|<=|>|<|=)?(.+)$ : the first alternative, in
\* the order written, that leaves at least one character for (.+), else no
\* operator; [matched, operator, rest]
operatorAlternatives == << <<">", "=">>, <<"<", "=">>, <<">">>, <<"<">>, <<"=">> >>

FindOperatorSubmatch(s) ==
    LET fits == {i \in 1..Len(operatorAlternatives) :
                    /\ HasPrefix(s, operatorAlternatives[i])
                    /\ Len(s) > Len(operatorAlternatives[i])}
        op   == operatorAlternatives[FirstIndex(fits)]
    IN  IF s = <<>> THEN [matched |-> FALSE, operator |-> <<>>, rest |-> <<>>]
        ELSE IF fits = {} THEN [matched |-> TRUE, operator |-> <<>>, rest |-> s]
        ELSE [matched |-> TRUE, operator |-> op, rest |-> SubSeq(s, Len(op) + 1, Len(s))]

\* a Go string of operator characters as the model's operator name
OperatorName(op) ==
    CASE op = <<">", "=">> -> ">="
      [] op = <<"<", "=">> -> "<="
      [] op = <<">">>      -> ">"
      [] op = <<"<">>      -> "<"
      [] OTHER             -> "="

\* strconv.ParseFloat on strings of signs, digits and "."; the value is in
\* hundredths, so at most two digits may follow the point.  (Exponents, hex
\* floats, "inf" and "nan" need letters the model's inputs do not have.)
ParseFloat(s) ==
    LET signed   == Len(s) > 0 /\ s[1] \in {"+", "-"}
        body     == IF signed THEN Tail(s) ELSE s
        points   == {i \in 1..Len(body) : body[i] = "."}
        point    == IF points = {} THEN Len(body) + 1 ELSE FirstIndex(points)
        whole    == SubSeq(body, 1, point - 1)
        frac     == SubSeq(body, point + 1, Len(body))
        wellMade == /\ Cardinality(points) <= 1
                    /\ \A i \in 1..Len(whole) : whole[i] \in Digits
                    /\ \A i \in 1..Len(frac) : frac[i] \in Digits
                    /\ Len(whole) + Len(frac) > 0
                    /\ Len(frac) <= 2
        padded   == IF Len(frac) = 0 THEN <<"0", "0">>
                    ELSE IF Len(frac) = 1 THEN frac \o <<"0">> ELSE frac
        abs      == 100 * DecimalVal(whole) + DecimalVal(padded)
    IN  IF wellMade
        THEN [err |-> FALSE, value |-> IF signed /\ s[1] = "-" THEN -abs ELSE abs]
        ELSE [err |-> TRUE, value |-> 0]

\* a bug: the operand is not trimmed, so ">= 50" is no number
parseAmountFilterNoOperandTrim(str) ==
    LET s       == TrimSpace(str)
        matches == FindOperatorSubmatch(s)
        value   == ParseFloat(matches.rest)
    IN  IF ~matches.matched \/ value.err
        THEN [err |-> TRUE, af |-> [operator |-> "", value |-> 0]]
        ELSE [err |-> FALSE,
              af  |-> [operator |-> OperatorName(matches.operator), value |-> value.value]]

\* [err, af]
parseAmountFilter(str) ==
    LET s       == TrimSpace(str)
        matches == FindOperatorSubmatch(s)
        value   == ParseFloat(TrimSpace(matches.rest))
    IN  IF ~matches.matched \/ value.err
        THEN [err |-> TRUE, af |-> [operator |-> "", value |-> 0]]
        ELSE [err |-> FALSE,
              af  |-> [operator |-> OperatorName(matches.operator), value |-> value.value]]

\* the Gregorian calendar of package time
IsLeap(year) == year % 4 = 0 /\ (year % 100 # 0 \/ year % 400 = 0)

DaysIn(month, year) ==
    CASE month = 2 -> IF IsLeap(year) THEN 29 ELSE 28
      [] month \in {4, 6, 9, 11} -> 30
      [] OTHER -> 31

AllDigits(s) == \A i \in 1..Len(s) : s[i] \in Digits

\* time.Parse("2006-01-02", s): whether s is accepted
ParsesAsFullDate(s) ==
    /\ Len(s) = 10
    /\ s[5] = "-" /\ s[8] = "-"
    /\ AllDigits(SubSeq(s, 1, 4)) /\ AllDigits(SubSeq(s, 6, 7)) /\ AllDigits(SubSeq(s, 9, 10))
    /\ DecimalVal(SubSeq(s, 6, 7)) \in 1..12
    /\ DecimalVal(SubSeq(s, 9, 10)) \in
           1..DaysIn(DecimalVal(SubSeq(s, 6, 7)), DecimalVal(SubSeq(s, 1, 4)))

\* time.Parse("01-02", s): whether s is accepted; the year is then 0, a leap year
ParsesAsShortDate(s) ==
    /\ Len(s) = 5
    /\ s[3] = "-"
    /\ AllDigits(SubSeq(s, 1, 2)) /\ AllDigits(SubSeq(s, 4, 5))
    /\ DecimalVal(SubSeq(s, 1, 2)) \in 1..12
    /\ DecimalVal(SubSeq(s, 4, 5)) \in 1..DaysIn(DecimalVal(SubSeq(s, 1, 2)), 0)

DigitChar(d) ==
    CASE d = 0 -> "0" [] d = 1 -> "1" [] d = 2 -> "2" [] d = 3 -> "3" [] d = 4 -> "4"
      [] d = 5 -> "5" [] d = 6 -> "6" [] d = 7 -> "7" [] d = 8 -> "8" [] d = 9 -> "9"

\* fmt.Sprintf("%d", n) for a year of four digits
FormatYear(n) ==
    << DigitChar(n \div 1000), DigitChar((n \div 100) % 10),
       DigitChar((n \div 10) % 10), DigitChar(n % 10) >>

\* [err, df]; year is time.Now().Year()
parseDateFilter(str, year) ==
    LET s       == TrimSpace(str)
        matches == FindOperatorSubmatch(s)
        dateStr == TrimSpace(matches.rest)
        noDate  == [err |-> TRUE, df |-> [operator |-> "", date |-> <<>>]]
    IN  IF ~matches.matched THEN noDate
        ELSE IF ParsesAsFullDate(dateStr)
        THEN [err |-> FALSE,
              df  |-> [operator |-> OperatorName(matches.operator), date |-> dateStr]]
        ELSE IF ParsesAsShortDate(dateStr)
        THEN [err |-> FALSE,
              df  |-> [operator |-> OperatorName(matches.operator),
                       date     |-> FormatYear(year) \o <<"-">> \o dateStr]]
        ELSE noDate

\* package time: a date is [y, m, d]; DaysFromCivil is the number of days
\* from 1970-01-01 to it and CivilFromDays the date that many days after
DaysFromCivil(date) ==
    LET y   == IF date.m <= 2 THEN date.y - 1 ELSE date.y
        era == y \div 400
        yoe == y - era * 400
        mp  == IF date.m > 2 THEN date.m - 3 ELSE date.m + 9
        doy == (153 * mp + 2) \div 5 + date.d - 1
        doe == yoe * 365 + yoe \div 4 - yoe \div 100 + doy
    IN  era * 146097 + doe - 719468

CivilFromDays(days) ==
    LET z   == days + 719468
        era == z \div 146097
        doe == z - era * 146097
        yoe == (doe - doe \div 1460 + doe \div 36524 - doe \div 146096) \div 365
        doy == doe - (365 * yoe + yoe \div 4 - yoe \div 100)
        mp  == (5 * doy + 2) \div 153
        m   == IF mp < 10 THEN mp + 3 ELSE mp - 9
    IN  [y |-> yoe + era * 400 + (IF m <= 2 THEN 1 ELSE 0),
         m |-> m,
         d |-> doy - (153 * mp + 2) \div 5 + 1]

\* Time.Weekday: 0 is Sunday (1970-01-01 was a Thursday)
Weekday(date) == (DaysFromCivil(date) + 4) % 7

\* Time.AddDate(0, months, days): the month is normalized into the year,
\* then the days are counted on from the first of that month, so that a
\* day past the end of the month runs over into the next one
AddDate(date, months, days) ==
    LET total == date.y * 12 + (date.m - 1) + months
        first == [y |-> total \div 12, m |-> (total % 12) + 1, d |-> 1]
    IN  CivilFromDays(DaysFromCivil(first) + date.d - 1 + days)

TwoDigits(n) == << DigitChar(n \div 10), DigitChar(n % 10) >>

\* Time.Format("2006-01-02") and Time.Format("2006-01")
FormatMonth(date) == FormatYear(date.y) \o <<"-">> \o TwoDigits(date.m)
FormatDate(date)  == FormatMonth(date) \o <<"-">> \o TwoDigits(date.d)

\* [err, cutoff]; today is the date of time.Now()
parseRecent(str, today) ==
    LET s        == TrimSpace(str)
        unit     == s[Len(s)]
        valueStr == SubSeq(s, 1, Len(s) - 1)
        value    == Atoi(valueStr)
        bad      == [err |-> TRUE, cutoff |-> today]
    IN  IF Len(s) < 2 THEN bad
        ELSE IF value.err THEN bad
        ELSE CASE unit = "d" -> [err |-> FALSE, cutoff |-> AddDate(today, 0, -value.val)]
               [] unit = "w" -> [err |-> FALSE, cutoff |-> AddDate(today, 0, -value.val * 7)]
               [] unit = "m" -> [err |-> FALSE, cutoff |-> AddDate(today, -value.val, 0)]
               [] OTHER      -> bad

\* the order of the bytes of a date string
byteOrder == << "-", "0", "1", "2", "3", "4", "5", "6", "7", "8", "9" >>
ByteOf(c) == CHOOSE i \in 1..Len(byteOrder) : byteOrder[i] = c

\* Go's < on strings: byte by byte, a proper prefix first
RECURSIVE StringLess(_, _)
StringLess(a, b) ==
    IF b = <<>> THEN FALSE
    ELSE IF a = <<>> THEN TRUE
    ELSE IF Head(a) # Head(b) THEN ByteOf(Head(a)) < ByteOf(Head(b))
    ELSE StringLess(Tail(a), Tail(b))

matchDate(billDate, df) ==
    CASE df.operator = "="  -> billDate = df.date
      [] df.operator = ">"  -> StringLess(df.date, billDate)
      [] df.operator = "<"  -> StringLess(billDate, df.date)
      [] df.operator = ">=" -> ~StringLess(billDate, df.date)
      [] df.operator = "<=" -> ~StringLess(df.date, billDate)
      [] OTHER              -> FALSE

----------------------------------------------------------------------------
(* cmd: the list command's filters.  A billFilter closure is a record of   *)
(* the values it captured; FilterAccepts is the call filter(bill).  Amounts *)
(* are in hundredths.                                                       *)

matchAmount(amount, af) ==
    CASE af.operator = "="  -> amount = af.value
      [] af.operator = ">"  -> amount > af.value
      [] af.operator = "<"  -> amount < af.value
      [] af.operator = ">=" -> amount >= af.value
      [] af.operator = "<=" -> amount <= af.value
      [] OTHER              -> FALSE

\* a bug: one of the required members among the owers is enough
FilterAcceptsAnyOwed(filter, bill) ==
    CASE filter.kind = "payer"    -> bill.PayerID = filter.payerID
      [] filter.kind = "owed"     ->
             \E i \in 1..Len(filter.owedIDs) :
                 \E j \in 1..Len(bill.Owers) : bill.Owers[j].ID = filter.owedIDs[i]
      [] filter.kind = "amount"   -> matchAmount(bill.Amount, filter.af)
      [] filter.kind = "name"     -> Contains(ToLower(bill.What), filter.lowerName)
      [] filter.kind = "method"   -> bill.PaymentModeID = filter.methodID
      [] filter.kind = "category" -> bill.CategoryID = filter.categoryID
      [] filter.kind = "today"    -> bill.Date = filter.today
      [] filter.kind = "date"     -> matchDate(bill.Date, filter.df)
      [] filter.kind = "month"    -> HasPrefix(bill.Date, filter.prefix)
      [] filter.kind = "week"     -> /\ ~StringLess(bill.Date, filter.startStr)
                                     /\ ~StringLess(filter.endStr, bill.Date)
      [] filter.kind = "recent"   -> ~StringLess(bill.Date, filter.cutoffStr)

\* the closures that buildFilters appends
FilterAccepts(filter, bill) ==
    CASE filter.kind = "payer"    -> bill.PayerID = filter.payerID
      [] filter.kind = "owed"     ->
             \A i \in 1..Len(filter.owedIDs) :
                 \E j \in 1..Len(bill.Owers) : bill.Owers[j].ID = filter.owedIDs[i]
      [] filter.kind = "amount"   -> matchAmount(bill.Amount, filter.af)
      [] filter.kind = "name"     -> Contains(ToLower(bill.What), filter.lowerName)
      [] filter.kind = "method"   -> bill.PaymentModeID = filter.methodID
      [] filter.kind = "category" -> bill.CategoryID = filter.categoryID
      [] filter.kind = "today"    -> bill.Date = filter.today
      [] filter.kind = "date"     -> matchDate(bill.Date, filter.df)
      [] filter.kind = "month"    -> HasPrefix(bill.Date, filter.prefix)
      [] filter.kind = "week"     -> /\ ~StringLess(bill.Date, filter.startStr)
                                     /\ ~StringLess(filter.endStr, bill.Date)
      [] filter.kind = "recent"   -> ~StringLess(bill.Date, filter.cutoffStr)

\* the inner loop of applyFilters: the index of the first filter that
\* rejects the bill, from filter i on, or 0 when none does
RECURSIVE firstRejecting(_, _, _)
firstRejecting(bill, filters, i) ==
    IF i > Len(filters) THEN 0
    ELSE IF ~FilterAccepts(filters[i], bill) THEN i
    ELSE firstRejecting(bill, filters, i + 1)

\* the outer loop of applyFilters, from bill i on
RECURSIVE filterFrom(_, _, _, _)
filterFrom(bills, filters, i, result) ==
    IF i > Len(bills) THEN result
    ELSE filterFrom(bills, filters, i + 1,
                    IF firstRejecting(bills[i], filters, 1) = 0
                    THEN Append(result, bills[i]) ELSE result)

\* a bug: no break, so the last filter alone decides
RECURSIVE lastFilterDecides(_, _, _, _)
lastFilterDecides(bills, filters, i, result) ==
    IF i > Len(bills) THEN result
    ELSE lastFilterDecides(bills, filters, i + 1,
                    IF FilterAccepts(filters[Len(filters)], bills[i])
                    THEN Append(result, bills[i]) ELSE result)

applyFiltersNoBreak(bills, filters) ==
    IF Len(filters) = 0 THEN bills ELSE lastFilterDecides(bills, filters, 1, <<>>)

applyFilters(bills, filters) ==
    IF Len(filters) = 0 THEN bills ELSE filterFrom(bills, filters, 1, <<>>)

----------------------------------------------------------------------------
(* cmd: the list command.  flags is the record of the package variables the *)
(* command line sets; clk gives, for each place where buildFilters reads    *)
(* the wall clock, the date that read sees.  An error is its message, ""    *)
(* for nil; "panic" is a nil pointer dereference.                           *)

Building(filters) == [err |-> "", filters |-> filters]
Failing(message)  == [err |-> message, filters |-> <<>>]

\* Body applied to the value of v, which is computed once
Bind(v, Body(_)) == CHOOSE out \in { Body(x) : x \in {v} } : TRUE

\* one "if flag set { ... }" block of buildFilters after the ones before it
AndThen(r, Block(_)) == Bind(r, LAMBDA x : IF x.err # "" THEN x ELSE Block(x.filters))

\* the loop over listPaidFor, from username i on; [err, owedIDs]
RECURSIVE resolveOwed(_, _, _, _)
resolveOwed(project, usernames, i, owedIDs) ==
    IF i > Len(usernames) THEN [err |-> FALSE, owedIDs |-> owedIDs]
    ELSE LET r == ResolveMember(project, usernames[i])
         IN  IF r.err THEN [err |-> TRUE, owedIDs |-> <<>>]
             ELSE resolveOwed(project, usernames, i + 1, Append(owedIDs, r.id))

\* a bug: Sunday stays day 0 of the week, so the week of a Sunday starts the day after
buildFiltersSundayIsZero(project, flags, clk) ==
    LET byPayer(filters) ==
            IF flags.listPaidBy = <<>> THEN Building(filters)
            ELSE IF project.isNil THEN Failing("panic")
            ELSE LET r == ResolveMember(project.val, flags.listPaidBy)
                 IN  IF r.err THEN Failing("resolving payer filter")
                     ELSE Building(Append(filters, [kind |-> "payer", payerID |-> r.id]))
        byOwed(filters) ==
            IF Len(flags.listPaidFor) = 0 THEN Building(filters)
            ELSE IF project.isNil THEN Failing("panic")
            ELSE LET r == resolveOwed(project.val, flags.listPaidFor, 1, <<>>)
                 IN  IF r.err THEN Failing("resolving owed member filter")
                     ELSE Building(Append(filters, [kind |-> "owed", owedIDs |-> r.owedIDs]))
        byAmount(filters) ==
            IF flags.listAmount = <<>> THEN Building(filters)
            ELSE LET r == parseAmountFilter(flags.listAmount)
                 IN  IF r.err THEN Failing("parsing amount filter")
                     ELSE Building(Append(filters, [kind |-> "amount", af |-> r.af]))
        byName(filters) ==
            IF flags.listName = <<>> THEN Building(filters)
            ELSE Building(Append(filters,
                     [kind |-> "name", lowerName |-> ToLower(flags.listName)]))
        byMethod(filters) ==
            IF flags.listPaymentMethod = <<>> THEN Building(filters)
            ELSE IF project.isNil THEN Failing("panic")
            ELSE LET r == ResolvePaymentMode(project.val, flags.listPaymentMethod)
                 IN  IF r.err THEN Failing("resolving payment method filter")
                     ELSE Building(Append(filters, [kind |-> "method", methodID |-> r.id]))
        byCategory(filters) ==
            IF flags.listCategory = <<>> THEN Building(filters)
            ELSE IF project.isNil THEN Failing("panic")
            ELSE LET r == ResolveCategory(project.val, flags.listCategory)
                 IN  IF r.err THEN Failing("resolving category filter")
                     ELSE Building(Append(filters, [kind |-> "category", categoryID |-> r.id]))
        byToday(filters) ==
            IF ~flags.listToday THEN Building(filters)
            ELSE Building(Append(filters, [kind |-> "today", today |-> FormatDate(clk.today)]))
        byDate(filters) ==
            IF flags.listDate = <<>> THEN Building(filters)
            ELSE LET r == parseDateFilter(flags.listDate, clk.date.y)
                 IN  IF r.err THEN Failing("parsing date filter")
                     ELSE Building(Append(filters, [kind |-> "date", df |-> r.df]))
        byThisMonth(filters) ==
            IF ~flags.listThisMonth THEN Building(filters)
            ELSE Building(Append(filters, [kind |-> "month", prefix |-> FormatMonth(clk.month)]))
        byThisWeek(filters) ==
            IF ~flags.listThisWeek THEN Building(filters)
            ELSE LET weekday     == Weekday(clk.week)
                     startOfWeek == AddDate(clk.week, 0, -(weekday - 1))
                     endOfWeek   == AddDate(startOfWeek, 0, 6)
                 IN  Building(Append(filters,
                         [kind |-> "week", startStr |-> FormatDate(startOfWeek),
                          endStr |-> FormatDate(endOfWeek)]))
        byRecent(filters) ==
            IF flags.listRecent = <<>> THEN Building(filters)
            ELSE LET r == parseRecent(flags.listRecent, clk.recent)
                 IN  IF r.err THEN Failing("parsing recent filter")
                     ELSE Building(Append(filters,
                              [kind |-> "recent", cutoffStr |-> FormatDate(r.cutoff)]))
    IN  AndThen(AndThen(AndThen(AndThen(AndThen(AndThen(AndThen(AndThen(AndThen(AndThen(
            byPayer(<<>>), byOwed), byAmount), byName), byMethod), byCategory),
            byToday), byDate), byThisMonth), byThisWeek), byRecent)

\* [err, filters]
buildFilters(project, flags, clk) ==
    LET byPayer(filters) ==
            IF flags.listPaidBy = <<>> THEN Building(filters)
            ELSE IF project.isNil THEN Failing("panic")
            ELSE LET r == ResolveMember(project.val, flags.listPaidBy)
                 IN  IF r.err THEN Failing("resolving payer filter")
                     ELSE Building(Append(filters, [kind |-> "payer", payerID |-> r.id]))
        byOwed(filters) ==
            IF Len(flags.listPaidFor) = 0 THEN Building(filters)
            ELSE IF project.isNil THEN Failing("panic")
            ELSE LET r == resolveOwed(project.val, flags.listPaidFor, 1, <<>>)
                 IN  IF r.err THEN Failing("resolving owed member filter")
                     ELSE Building(Append(filters, [kind |-> "owed", owedIDs |-> r.owedIDs]))
        byAmount(filters) ==
            IF flags.listAmount = <<>> THEN Building(filters)
            ELSE LET r == parseAmountFilter(flags.listAmount)
                 IN  IF r.err THEN Failing("parsing amount filter")
                     ELSE Building(Append(filters, [kind |-> "amount", af |-> r.af]))
        byName(filters) ==
            IF flags.listName = <<>> THEN Building(filters)
            ELSE Building(Append(filters,
                     [kind |-> "name", lowerName |-> ToLower(flags.listName)]))
        byMethod(filters) ==
            IF flags.listPaymentMethod = <<>> THEN Building(filters)
            ELSE IF project.isNil THEN Failing("panic")
            ELSE LET r == ResolvePaymentMode(project.val, flags.listPaymentMethod)
                 IN  IF r.err THEN Failing("resolving payment method filter")
                     ELSE Building(Append(filters, [kind |-> "method", methodID |-> r.id]))
        byCategory(filters) ==
            IF flags.listCategory = <<>> THEN Building(filters)
            ELSE IF project.isNil THEN Failing("panic")
            ELSE LET r == ResolveCategory(project.val, flags.listCategory)
                 IN  IF r.err THEN Failing("resolving category filter")
                     ELSE Building(Append(filters, [kind |-> "category", categoryID |-> r.id]))
        byToday(filters) ==
            IF ~flags.listToday THEN Building(filters)
            ELSE Building(Append(filters, [kind |-> "today", today |-> FormatDate(clk.today)]))
        byDate(filters) ==
            IF flags.listDate = <<>> THEN Building(filters)
            ELSE LET r == parseDateFilter(flags.listDate, clk.date.y)
                 IN  IF r.err THEN Failing("parsing date filter")
                     ELSE Building(Append(filters, [kind |-> "date", df |-> r.df]))
        byThisMonth(filters) ==
            IF ~flags.listThisMonth THEN Building(filters)
            ELSE Building(Append(filters, [kind |-> "month", prefix |-> FormatMonth(clk.month)]))
        byThisWeek(filters) ==
            IF ~flags.listThisWeek THEN Building(filters)
            ELSE LET weekday     == IF Weekday(clk.week) = 0 THEN 7 ELSE Weekday(clk.week)
                     startOfWeek == AddDate(clk.week, 0, -(weekday - 1))
                     endOfWeek   == AddDate(startOfWeek, 0, 6)
                 IN  Building(Append(filters,
                         [kind |-> "week", startStr |-> FormatDate(startOfWeek),
                          endStr |-> FormatDate(endOfWeek)]))
        byRecent(filters) ==
            IF flags.listRecent = <<>> THEN Building(filters)
            ELSE LET r == parseRecent(flags.listRecent, clk.recent)
                 IN  IF r.err THEN Failing("parsing recent filter")
                     ELSE Building(Append(filters,
                              [kind |-> "recent", cutoffStr |-> FormatDate(r.cutoff)]))
    IN  AndThen(AndThen(AndThen(AndThen(AndThen(AndThen(AndThen(AndThen(AndThen(AndThen(
            byPayer(<<>>), byOwed), byAmount), byName), byMethod), byCategory),
            byToday), byDate), byThisMonth), byThisWeek), byRecent)

listFormats == { <<"t","a","b","l","e">>, <<"c","s","v">>, <<"j","s","o","n">> }

\* what the run of a command leaves: the error it returned, the API requests
\* it sent in order, the warnings it wrote, the cache directory, and what it
\* had to print
Outcome(err, requests, warnings, f, silenced, locale, bills) ==
    [err |-> err, requests |-> requests, warnings |-> warnings, fs |-> f,
     SilenceUsage |-> silenced, locale |-> locale, filteredBills |-> bills]

\* runList at hour t on the cache directory f.  server is what the API
\* answers: [project, bills, userInfo], and fault names the one call that
\* fails in this run ("none", "config", "project", "bills" or "userinfo").
runList(f, t, flags, server, fault, clk) ==
    IF flags.ProjectID = <<>>
    THEN Outcome("project is required", <<>>, <<>>, f, FALSE, <<>>, <<>>)
    ELSE IF flags.listFormat \notin listFormats
    THEN Outcome("unsupported format", <<>>, <<>>, f, FALSE, <<>>, <<>>)
    ELSE IF fault = "config"
    THEN Outcome("loading configuration", <<>>, <<>>, f, TRUE, <<>>, <<>>)
    ELSE
    \* the project, from the cache or the API
    Bind(Load(f, t, flags.ProjectID), LAMBDA ld :
    IF ~ld.found /\ fault = "project"
    THEN Outcome("fetching project", <<"GetProject">>, <<>>, ld.fs, TRUE, <<>>, <<>>)
    ELSE
    Bind(IF ld.found THEN [err |-> FALSE, fs |-> ld.fs]
         ELSE Save(ld.fs, t, flags.ProjectID, Ptr(server.project)), LAMBDA sv :
    LET project == IF ld.found THEN ld.project ELSE Ptr(server.project)
        reqs1   == IF ld.found THEN <<>> ELSE <<"GetProject">>
        warn1   == IF sv.err THEN <<"failed to cache project">> ELSE <<>>
        reqs2   == Append(reqs1, "GetBills")
    IN
    \* the bills
    IF fault = "bills"
    THEN Outcome("fetching bills", reqs2, warn1, sv.fs, TRUE, <<>>, <<>>)
    ELSE
    \* the user info, from the cache or the API
    Bind(LoadUserInfo(sv.fs, t), LAMBDA lu :
    Bind(IF lu.found \/ fault = "userinfo" THEN [err |-> FALSE, fs |-> sv.fs]
         ELSE SaveUserInfo(sv.fs, t, Ptr(server.userInfo)), LAMBDA su :
    LET userInfo == IF lu.found THEN lu.userInfo
                    ELSE IF fault = "userinfo" THEN NilPtr
                    ELSE Ptr(server.userInfo)
        reqs3    == IF lu.found THEN reqs2 ELSE Append(reqs2, "GetUserInfo")
        warn2    == IF lu.found THEN warn1
                    ELSE IF fault = "userinfo"
                    THEN Append(warn1, "failed to fetch user info")
                    ELSE IF su.err THEN Append(warn1, "failed to cache user info")
                    ELSE warn1
        locale   == IF ~userInfo.isNil /\ userInfo.val.Locale # <<>>
                    THEN userInfo.val.Locale
                    ELSE IF ~userInfo.isNil /\ userInfo.val.Language # <<>>
                    THEN userInfo.val.Language
                    ELSE <<"e","n","_","U","S">>
    IN
    \* the filters, and the bills they select
    Bind(buildFilters(project, flags, clk), LAMBDA built :
    IF built.err # ""
    THEN Outcome(built.err, reqs3, warn2, su.fs, TRUE, locale, <<>>)
    ELSE IF project.isNil
    THEN Outcome("panic", reqs3, warn2, su.fs, TRUE, locale, <<>>)
    ELSE Outcome("", reqs3, warn2, su.fs, TRUE, locale,
                 applyFilters(server.bills, built.filters))
    )))))

----------------------------------------------------------------------------
(* cmd: the add command.  args is <<name, amount>>, flags the package       *)
(* variables the command line sets, cfg the configuration that config.Load  *)
(* returns and today the date of time.Now().                                *)

NoBill == [sent |-> FALSE]

BillFailing(message) == [err |-> message, bill |-> NoBill]

\* a bug: the error of ResolveCategory is dropped and the bill keeps category 0
resolveBillIgnoringCategoryError(project, name, amount, flags, cfg, today) ==
    LET payerUsername == IF flags.paidBy = <<>> THEN cfg.User ELSE flags.paidBy
    IN
    IF project.isNil THEN BillFailing("panic")
    ELSE
    Bind(ResolveMember(project.val, payerUsername), LAMBDA payer :
    IF payer.err THEN BillFailing("resolving payer")
    ELSE
    Bind(IF Len(flags.paidFor) = 0 THEN [err |-> FALSE, owedIDs |-> <<payer.id>>]
         ELSE resolveOwed(project.val, flags.paidFor, 1, <<>>), LAMBDA owed :
    IF owed.err THEN BillFailing("resolving owed member")
    ELSE
    Bind(IF flags.category = <<>> THEN [err |-> FALSE, id |-> 0]
         ELSE ResolveCategory(project.val, flags.category), LAMBDA cat :
    Bind(IF flags.paymentMethod = <<>> THEN [err |-> FALSE, id |-> 0]
         ELSE ResolvePaymentMode(project.val, flags.paymentMethod), LAMBDA method :
    IF method.err THEN BillFailing("resolving payment method")
    ELSE
    Bind(IF flags.convertTo = <<>> THEN [err |-> FALSE, id |-> 0]
         ELSE ResolveCurrency(project.val, flags.convertTo), LAMBDA currency :
    IF currency.err THEN BillFailing("resolving currency")
    ELSE
    [err  |-> "",
     bill |-> [sent               |-> TRUE,
               What               |-> name,
               Amount             |-> amount,
               PayerID            |-> payer.id,
               OwedTo             |-> owed.owedIDs,
               Date               |-> FormatDate(today),
               Comment            |-> flags.comment,
               PaymentModeID      |-> method.id,
               CategoryID         |-> IF cat.err THEN 0 ELSE cat.id,
               OriginalCurrencyID |-> currency.id]]
    )))))

\* the part of runAdd from "Resolve payer" to "Add optional comment":
\* [err, bill]
resolveBill(project, name, amount, flags, cfg, today) ==
    LET payerUsername == IF flags.paidBy = <<>> THEN cfg.User ELSE flags.paidBy
    IN
    IF project.isNil THEN BillFailing("panic")
    ELSE
    Bind(ResolveMember(project.val, payerUsername), LAMBDA payer :
    IF payer.err THEN BillFailing("resolving payer")
    ELSE
    Bind(IF Len(flags.paidFor) = 0 THEN [err |-> FALSE, owedIDs |-> <<payer.id>>]
         ELSE resolveOwed(project.val, flags.paidFor, 1, <<>>), LAMBDA owed :
    IF owed.err THEN BillFailing("resolving owed member")
    ELSE
    Bind(IF flags.category = <<>> THEN [err |-> FALSE, id |-> 0]
         ELSE ResolveCategory(project.val, flags.category), LAMBDA cat :
    IF cat.err THEN BillFailing("resolving category")
    ELSE
    Bind(IF flags.paymentMethod = <<>> THEN [err |-> FALSE, id |-> 0]
         ELSE ResolvePaymentMode(project.val, flags.paymentMethod), LAMBDA method :
    IF method.err THEN BillFailing("resolving payment method")
    ELSE
    Bind(IF flags.convertTo = <<>> THEN [err |-> FALSE, id |-> 0]
         ELSE ResolveCurrency(project.val, flags.convertTo), LAMBDA currency :
    IF currency.err THEN BillFailing("resolving currency")
    ELSE
    [err  |-> "",
     bill |-> [sent               |-> TRUE,
               What               |-> name,
               Amount             |-> amount,
               PayerID            |-> payer.id,
               OwedTo             |-> owed.owedIDs,
               Date               |-> FormatDate(today),
               Comment            |-> flags.comment,
               PaymentModeID      |-> method.id,
               CategoryID         |-> cat.id,
               OriginalCurrencyID |-> currency.id]]
    )))))

\* what a run of add leaves: as for list, and the project it resolved
\* against and the bill it handed to CreateBill
AddOutcome(err, requests, warnings, f, silenced, project, bill) ==
    [err |-> err, requests |-> requests, warnings |-> warnings, fs |-> f,
     SilenceUsage |-> silenced, project |-> project, bill |-> bill]

\* runAdd at hour t on the cache directory f; fault names the one call that
\* fails in this run ("none", "config", "project" or "create")
runAdd(f, t, args, flags, cfg, server, fault, today) ==
    LET stop(err, silenced) == AddOutcome(err, <<>>, <<>>, f, silenced, NilPtr, NoBill)
    IN
    IF flags.ProjectID = <<>> THEN stop("project is required", FALSE)
    ELSE
    Bind(ParseFloat(args[2]), LAMBDA amount :
    IF amount.err THEN stop("invalid amount", FALSE)
    ELSE IF fault = "config" THEN stop("loading configuration", TRUE)
    ELSE
    \* the project, from the cache or the API
    Bind(Load(f, t, flags.ProjectID), LAMBDA ld :
    IF ~ld.found /\ fault = "project"
    THEN AddOutcome("fetching project", <<"GetProject">>, <<>>, ld.fs, TRUE, NilPtr, NoBill)
    ELSE
    Bind(IF ld.found THEN [err |-> FALSE, fs |-> ld.fs]
         ELSE Save(ld.fs, t, flags.ProjectID, Ptr(server.project)), LAMBDA sv :
    LET project == IF ld.found THEN ld.project ELSE Ptr(server.project)
        reqs    == IF ld.found THEN <<>> ELSE <<"GetProject">>
        warn    == IF sv.err THEN <<"failed to cache project">> ELSE <<>>
    IN
    Bind(resolveBill(project, args[1], amount.value, flags, cfg, today), LAMBDA built :
    IF built.err # ""
    THEN AddOutcome(built.err, reqs, warn, sv.fs, TRUE, project, NoBill)
    ELSE AddOutcome(IF fault = "create" THEN "creating bill" ELSE "",
                    Append(reqs, "CreateBill"), warn, sv.fs, TRUE, project, built.bill)
    ))))

----------------------------------------------------------------------------
(* cmd: the info command.  flags is [ProjectID, infoCached].                *)

\* what a run of info leaves: as for list, and the user info and the project
\* it printed (NilPtr when it printed none)
InfoOutcome(err, requests, warnings, f, userInfo, project) ==
    [err |-> err, requests |-> requests, warnings |-> warnings, fs |-> f,
     SilenceUsage |-> TRUE, userInfo |-> userInfo, project |-> project]

\* a bug: the cache is consulted whether or not --cached was given
runInfoAlwaysCached(f, t, flags, server, fault) ==
    IF fault = "config"
    THEN InfoOutcome("loading configuration", <<>>, <<>>, f, NilPtr, NilPtr)
    ELSE
    Bind(LoadUserInfo(f, t).userInfo, LAMBDA cachedInfo :
    IF cachedInfo.isNil /\ fault = "userinfo"
    THEN InfoOutcome("fetching user info", <<"GetUserInfo">>, <<>>, f, NilPtr, NilPtr)
    ELSE
    Bind(IF cachedInfo.isNil THEN SaveUserInfo(f, t, Ptr(server.userInfo)).fs ELSE f,
         LAMBDA f1 :
    LET userInfo == IF cachedInfo.isNil THEN Ptr(server.userInfo) ELSE cachedInfo
        reqs1    == IF cachedInfo.isNil THEN <<"GetUserInfo">> ELSE <<>>
    IN
    IF flags.ProjectID = <<>>
    THEN InfoOutcome("", reqs1, <<>>, f1, userInfo, NilPtr)
    ELSE
    Bind(Load(f1, t, flags.ProjectID), LAMBDA ld :
    IF ld.project.isNil /\ fault = "project"
    THEN InfoOutcome("fetching project", Append(reqs1, "GetProject"), <<>>, ld.fs,
                     userInfo, NilPtr)
    ELSE
    Bind(IF ~ld.project.isNil THEN [err |-> FALSE, fs |-> ld.fs]
         ELSE Save(ld.fs, t, flags.ProjectID, Ptr(server.project)), LAMBDA sv :
    InfoOutcome("",
                IF ld.project.isNil THEN Append(reqs1, "GetProject") ELSE reqs1,
                IF sv.err THEN <<"failed to cache project">> ELSE <<>>,
                sv.fs, userInfo,
                IF ld.project.isNil THEN Ptr(server.project) ELSE ld.project)
    ))))

\* runInfo at hour t on the cache directory f; fault names the one call that
\* fails in this run ("none", "config", "userinfo" or "project")
runInfo(f, t, flags, server, fault) ==
    IF fault = "config"
    THEN InfoOutcome("loading configuration", <<>>, <<>>, f, NilPtr, NilPtr)
    ELSE
    \* the user info, from the cache with --cached, else from the API
    Bind(IF flags.infoCached THEN LoadUserInfo(f, t).userInfo ELSE NilPtr, LAMBDA cachedInfo :
    IF cachedInfo.isNil /\ fault = "userinfo"
    THEN InfoOutcome("fetching user info", <<"GetUserInfo">>, <<>>, f, NilPtr, NilPtr)
    ELSE
    \* the error of SaveUserInfo is discarded
    Bind(IF cachedInfo.isNil THEN SaveUserInfo(f, t, Ptr(server.userInfo)).fs ELSE f,
         LAMBDA f1 :
    LET userInfo == IF cachedInfo.isNil THEN Ptr(server.userInfo) ELSE cachedInfo
        reqs1    == IF cachedInfo.isNil THEN <<"GetUserInfo">> ELSE <<>>
    IN
    IF flags.ProjectID = <<>>
    THEN InfoOutcome("", reqs1, <<>>, f1, userInfo, NilPtr)
    ELSE
    \* the project, from the cache with --cached, else from the API
    Bind(IF flags.infoCached THEN Load(f1, t, flags.ProjectID) ELSE Miss(f1), LAMBDA ld :
    IF ld.project.isNil /\ fault = "project"
    THEN InfoOutcome("fetching project", Append(reqs1, "GetProject"), <<>>, ld.fs,
                     userInfo, NilPtr)
    ELSE
    Bind(IF ~ld.project.isNil THEN [err |-> FALSE, fs |-> ld.fs]
         ELSE Save(ld.fs, t, flags.ProjectID, Ptr(server.project)), LAMBDA sv :
    InfoOutcome("",
                IF ld.project.isNil THEN Append(reqs1, "GetProject") ELSE reqs1,
                IF sv.err THEN <<"failed to cache project">> ELSE <<>>,
                sv.fs, userInfo,
                IF ld.project.isNil THEN Ptr(server.project) ELSE ld.project)
    ))))

----------------------------------------------------------------------------
(* Resolver calls on bounded inputs *)

EntityIDs == 1..MaxColl

EntityNames ==
    { <<"2">>, <<"F","O">>, <<"F","o","o">>, <<"$">>, <<"U","S","$">>, <<"U","S","D">> }

EntityUserIDs == { <<>>, <<"f","o">> }

Tokens ==
    { <<>>, <<"1">>, <<"2">>, <<"f","o">>, <<"F","O","O">>, <<"o">>,
      <<"u","s","d">>, <<"$">>, <<"e","u","r">> }

Entities == [ID : EntityIDs, Name : EntityNames, UserID : EntityUserIDs]

\* the collections of at most MaxColl entities with pairwise distinct IDs
RECURSIVE CollectionsUpTo(_)
CollectionsUpTo(n) ==
    IF n = 0 THEN { <<>> }
    ELSE LET shorter == CollectionsUpTo(n - 1)
         IN  shorter \cup
             { Append(c, e) : <<c, e>> \in
                 { ce \in shorter \X Entities :
                     /\ Len(ce[1]) = n - 1
                     /\ \A i \in 1..Len(ce[1]) : ce[1][i].ID # ce[2].ID } }

AsMember(e)   == [ID |-> e.ID, Name |-> e.Name, UserID |-> e.UserID]
AsNamed(e)    == [ID |-> e.ID, Name |-> e.Name]
MapSeq(s, Op(_)) == [i \in 1..Len(s) |-> Op(s[i])]

\* a project whose four reference collections hold the same entities
ProjectOf(id, ents) ==
    [ID           |-> id,
     Name         |-> <<"T","r","i","p">>,
     CurrencyName |-> <<"$">>,
     Members      |-> Slice(MapSeq(ents, AsMember)),
     Categories   |-> Slice(MapSeq(ents, AsNamed)),
     PaymentModes |-> Slice(MapSeq(ents, AsNamed)),
     Currencies   |-> Slice(MapSeq(ents, AsNamed))]

NoCall == [fn |-> "none", id |-> 0, err |-> FALSE]
Returned(fn, r) == [fn |-> fn, id |-> r.id, err |-> r.err]

\* no cache call made yet: an empty store at hour 0
NoRet == [op |-> "none"]
NoSave == [valid |-> FALSE]
ProjectIDs == { <<"p","1">>, <<"_","u","s","e","r","i","n","f","o">> }
Paths == { id \o jsonSuffix : id \in ProjectIDs } \cup { userInfoPath }
EmptyStore == [dir |-> "absent", files |-> [path \in Paths |-> Absent]]

CacheIdle ==
    /\ now = 0
    /\ fs = EmptyStore
    /\ lastSave = [id \in ProjectIDs |-> NoSave]
    /\ ret = NoRet

FilterIdle ==
    /\ fBills = <<>>
    /\ fFilters = <<>>
    /\ fResult = [done |-> FALSE]

ResolveIdle ==
    /\ rProject = ProjectOf(<<"p","1">>, <<>>)
    /\ rToken = <<>>
    /\ rResult = NoCall

\* no call of SymbolToISO made yet
SymbolInputs ==
    { <<"$">>, <<"k","r">>, <<"U+00A5">>, <<"L","e","k">>, <<"z","z">> }

SymbolIdle ==
    /\ symbolToISOMap = NilPtr
    /\ isoSeen = [symbol \in SymbolInputs |-> {}]

\* no project fetched, no output limited, no login started
NoWire == [t |-> "none"]

WireIdle ==
    /\ wire = NoWire
    /\ idsSeen = {}

NotPolling == [pc |-> "idle"]

LoginIdle ==
    /\ listLimit = 0
    /\ poll = NotPolling

\* no filter expression parsed yet
NotParsed == [fn |-> "none"]

ParseIdle ==
    /\ dateNow = [y |-> 2026, m |-> 12, d |-> 31]
    /\ parsed = NotParsed

\* no process is saving or loading
IdleWriter == [pc |-> "idle", project |-> NilPtr]
IdleReader == [pc |-> "idle", cap |-> 0, buf |-> <<>>, result |-> [done |-> FALSE]]

RaceIdle ==
    /\ disk = NoFile
    /\ writers = [w \in 1..MaxWriters |-> IdleWriter]
    /\ reader = IdleReader

NotRun    == [run |-> FALSE]
NoOutcome == Outcome("", <<>>, <<>>, EmptyStore, FALSE, <<>>, <<>>)

ListIdle ==
    /\ startDate = [y |-> 2026, m |-> 12, d |-> 31]
    /\ cmd = NotRun
    /\ outcome = NoOutcome

InitResolve ==
    /\ rProject \in { ProjectOf(<<"p","1">>, c) : c \in CollectionsUpTo(MaxColl) }
    /\ rToken \in Tokens
    /\ rResult = NoCall
    /\ CacheIdle
    /\ FilterIdle
    /\ ListIdle
    /\ RaceIdle
    /\ SymbolIdle
    /\ WireIdle
    /\ LoginIdle
    /\ ParseIdle

CallResolveMember ==
    /\ rResult' = Returned("ResolveMember", ResolveMember(rProject, rToken))
    /\ UNCHANGED <<rProject, rToken>>
    /\ UNCHANGED <<cacheVars, filterVars, listVars, raceVars, symbolVars, parseVars, wireVars, loginVars>>

CallResolveCategory ==
    /\ rResult' = Returned("ResolveCategory", ResolveCategory(rProject, rToken))
    /\ UNCHANGED <<rProject, rToken>>
    /\ UNCHANGED <<cacheVars, filterVars, listVars, raceVars, symbolVars, parseVars, wireVars, loginVars>>

CallResolvePaymentMode ==
    /\ rResult' = Returned("ResolvePaymentMode", ResolvePaymentMode(rProject, rToken))
    /\ UNCHANGED <<rProject, rToken>>
    /\ UNCHANGED <<cacheVars, filterVars, listVars, raceVars, symbolVars, parseVars, wireVars, loginVars>>

CallResolveCurrency ==
    /\ rResult' = Returned("ResolveCurrency", ResolveCurrency(rProject, rToken))
    /\ UNCHANGED <<rProject, rToken>>
    /\ UNCHANGED <<cacheVars, filterVars, listVars, raceVars, symbolVars, parseVars, wireVars, loginVars>>

NextResolve ==
    \/ CallResolveMember
    \/ CallResolveCategory
    \/ CallResolvePaymentMode
    \/ CallResolveCurrency

SpecResolve == InitResolve /\ [][NextResolve]_vars

----------------------------------------------------------------------------
(* Cache calls: Load, Save, LoadUserInfo and SaveUserInfo in any order,     *)
(* the clock advancing, and the user or another program touching the cache  *)
(* directory in between.                                                    *)

\* the projects handed to Save: one as a server response gives it, one with
\* nil collections (as in TestLoadExpired)
SavedProjects ==
    { ProjectOf(<<"p","1">>, << [ID |-> 1, Name |-> <<"F","o","o">>, UserID |-> <<"f","o">>] >>),
      [ID |-> <<"p","1">>, Name |-> <<"T","r","i","p">>, CurrencyName |-> <<>>,
       Members |-> NilSlice, Categories |-> NilSlice,
       PaymentModes |-> NilSlice, Currencies |-> NilSlice] }

SavedUserInfos == { [Locale |-> <<"e","n","_","U","S">>, Language |-> <<"e","n">>] }

\* what a cache file may hold when something other than Save wrote it
ForeignContents ==
    { Unreadable,
      Bytes(InvalidJSON),
      Bytes(JObject([project |-> MarshalProject(ProjectOf(<<"p","1">>, <<>>))])) }

\* the file of projectID is no longer what Save left
Touched(path) ==
    [id \in ProjectIDs |-> IF id \o jsonSuffix = path THEN NoSave ELSE lastSave[id]]

InitCache ==
    /\ CacheIdle
    /\ ResolveIdle
    /\ FilterIdle
    /\ ListIdle
    /\ RaceIdle
    /\ SymbolIdle
    /\ WireIdle
    /\ LoginIdle
    /\ ParseIdle

CallLoad(projectID) ==
    LET r == Load(fs, now, projectID)
    IN  /\ ret' = [op |-> "Load", id |-> projectID, found |-> r.found, project |-> r.project]
        /\ fs' = r.fs
        /\ UNCHANGED <<now, lastSave>>
        /\ UNCHANGED <<resolveVars, filterVars, listVars, raceVars, symbolVars, parseVars, wireVars, loginVars>>

CallSave(projectID, project) ==
    LET r == Save(fs, now, projectID, Ptr(project))
    IN  /\ ret' = [op |-> "Save", id |-> projectID, err |-> r.err]
        /\ fs' = r.fs
        /\ lastSave' = IF r.err THEN lastSave
                       ELSE [lastSave EXCEPT ![projectID] =
                                [valid |-> TRUE, project |-> project, at |-> now,
                                 overwrote |-> /\ lastSave[projectID].valid
                                               /\ lastSave[projectID].project # project]]
        /\ UNCHANGED now
        /\ UNCHANGED <<resolveVars, filterVars, listVars, raceVars, symbolVars, parseVars, wireVars, loginVars>>

CallLoadUserInfo ==
    LET r == LoadUserInfo(fs, now)
    IN  /\ ret' = [op |-> "LoadUserInfo", found |-> r.found, userInfo |-> r.userInfo]
        /\ UNCHANGED <<now, fs, lastSave>>
        /\ UNCHANGED <<resolveVars, filterVars, listVars, raceVars, symbolVars, parseVars, wireVars, loginVars>>

CallSaveUserInfo(userInfo) ==
    LET r == SaveUserInfo(fs, now, Ptr(userInfo))
    IN  /\ ret' = [op |-> "SaveUserInfo", err |-> r.err]
        /\ fs' = r.fs
        /\ lastSave' = IF r.err THEN lastSave ELSE Touched(userInfoPath)
        /\ UNCHANGED now
        /\ UNCHANGED <<resolveVars, filterVars, listVars, raceVars, symbolVars, parseVars, wireVars, loginVars>>

\* an hour passes
Tick ==
    /\ now < MaxTime
    /\ now' = now + 1
    /\ ret' = NoRet
    /\ UNCHANGED <<fs, lastSave>>
    /\ UNCHANGED <<resolveVars, filterVars, listVars, raceVars, symbolVars, parseVars, wireVars, loginVars>>

\* something else writes a cache file, or takes the permission to read it
EnvWrite(path, content) ==
    /\ fs.dir = "present"
    /\ fs' = [fs EXCEPT !.files[path] = content]
    /\ lastSave' = Touched(path)
    /\ ret' = NoRet
    /\ UNCHANGED now
    /\ UNCHANGED <<resolveVars, filterVars, listVars, raceVars, symbolVars, parseVars, wireVars, loginVars>>

\* the cache directory is removed
EnvRemoveDir ==
    /\ fs.dir = "present"
    /\ fs' = EmptyStore
    /\ lastSave' = [id \in ProjectIDs |-> NoSave]
    /\ ret' = NoRet
    /\ UNCHANGED now
    /\ UNCHANGED <<resolveVars, filterVars, listVars, raceVars, symbolVars, parseVars, wireVars, loginVars>>

\* the cache directory can no longer be created (its parent is read-only), or can again
EnvBlockDir ==
    /\ fs.dir \in {"absent", "blocked"}
    /\ fs' = [fs EXCEPT !.dir = IF fs.dir = "absent" THEN "blocked" ELSE "absent"]
    /\ ret' = NoRet
    /\ UNCHANGED <<now, lastSave>>
    /\ UNCHANGED <<resolveVars, filterVars, listVars, raceVars, symbolVars, parseVars, wireVars, loginVars>>

\* something else leaves an entry of this hour that holds neither a project
\* nor a user info: {"project": null, "user_info": null, "cached_at": now}
EnvWriteEntryWithoutPayload(path) ==
    EnvWrite(path, Bytes(JObject([project   |-> JNull,
                                  user_info |-> JNull,
                                  cached_at |-> JTime(At(now))])))

NextCache ==
    \/ \E id \in ProjectIDs : CallLoad(id)
    \/ \E id \in ProjectIDs, p \in SavedProjects : CallSave(id, p)
    \/ CallLoadUserInfo
    \/ \E u \in SavedUserInfos : CallSaveUserInfo(u)
    \/ Tick
    \/ \E path \in Paths, c \in ForeignContents : EnvWrite(path, c)
    \/ \E path \in Paths : EnvWriteEntryWithoutPayload(path)
    \/ EnvRemoveDir
    \/ EnvBlockDir

SpecCache == InitCache /\ [][NextCache]_vars

----------------------------------------------------------------------------
(* applyFilters on bounded inputs *)

\* bill number i of a project
BillNo(i) ==
    [ID |-> i, PayerID |-> 1 + (i % 2), Amount |-> 2500 * i,
     What |-> IF i % 2 = 1 THEN <<"D","i","n","n","e","r">> ELSE <<"T","a","x","i">>,
     Date |-> FormatDate(AddDate([y |-> 2026, m |-> 12, d |-> 29], 0, i)),
     Owers |-> CASE i % 3 = 1 -> << [ID |-> 1] >>
                 [] i % 3 = 2 -> << [ID |-> 1], [ID |-> 2] >>
                 [] OTHER     -> << [ID |-> 2] >>,
     CategoryID |-> 1 + ((i \div 2) % 2), PaymentModeID |-> 1]

\* the sequences of at most n distinct elements of S
RECURSIVE DistinctSeqs(_, _)
DistinctSeqs(S, n) ==
    IF n = 0 THEN { <<>> }
    ELSE LET shorter == DistinctSeqs(S, n - 1)
         IN  shorter \cup
             { Append(q, x) : <<q, x>> \in
                 { qx \in shorter \X S :
                     Len(qx[1]) = n - 1 /\ \A i \in 1..Len(qx[1]) : qx[1][i] # qx[2] } }

\* the sequences of at most n elements of S
RECURSIVE SeqsUpTo(_, _)
SeqsUpTo(S, n) ==
    IF n = 0 THEN { <<>> }
    ELSE LET shorter == SeqsUpTo(S, n - 1)
         IN  shorter \cup { Append(q, x) : <<q, x>> \in {qx \in shorter \X S : Len(qx[1]) = n - 1} }

BillLists == DistinctSeqs({ BillNo(i) : i \in 1..MaxBills }, MaxBills)

FilterPool ==
    { [kind |-> "payer", payerID |-> 1],
      [kind |-> "amount", af |-> [operator |-> ">", value |-> 3000]],
      [kind |-> "amount", af |-> [operator |-> "<=", value |-> 5000]],
      [kind |-> "category", categoryID |-> 2] }

InitFilter ==
    /\ fBills \in BillLists
    /\ fFilters \in SeqsUpTo(FilterPool, MaxFilters)
    /\ fResult = [done |-> FALSE]
    /\ CacheIdle
    /\ ResolveIdle
    /\ ListIdle
    /\ RaceIdle
    /\ SymbolIdle
    /\ WireIdle
    /\ LoginIdle
    /\ ParseIdle

CallApplyFilters ==
    /\ ~fResult.done
    /\ fResult' = [done |-> TRUE, bills |-> applyFilters(fBills, fFilters)]
    /\ UNCHANGED <<fBills, fFilters>>
    /\ UNCHANGED <<resolveVars, cacheVars, listVars, raceVars, symbolVars, parseVars, wireVars, loginVars>>

NextFilter == CallApplyFilters

SpecFilter == InitFilter /\ [][NextFilter]_vars

----------------------------------------------------------------------------
(* Runs of the list command: each run is one process, started on what the   *)
(* runs before it left in the cache directory, against a server that holds  *)
(* one project.                                                             *)

\* what the server answers to GetProject, GetBills and GetUserInfo
Server ==
    [project  |-> ProjectOf(<<"p","1">>,
                     << [ID |-> 1, Name |-> <<"F","o","o">>, UserID |-> <<"f","o">>],
                        [ID |-> 2, Name |-> <<"B","a","r">>, UserID |-> <<"b","a">>] >>),
     bills    |-> [i \in 1..MaxBills |-> BillNo(i)],
     userInfo |-> [Locale |-> <<>>, Language |-> <<"d","e">>]]

Faults == {"none", "config", "project", "bills", "userinfo"}

\* the command line "cospend list -p p1"
DefaultFlags ==
    [ProjectID         |-> <<"p","1">>,
     listFormat        |-> <<"t","a","b","l","e">>,
     listPaidBy        |-> <<>>,
     listPaidFor       |-> <<>>,
     listAmount        |-> <<>>,
     listName          |-> <<>>,
     listPaymentMethod |-> <<>>,
     listCategory      |-> <<>>,
     listToday         |-> FALSE,
     listDate          |-> <<>>,
     listThisMonth     |-> FALSE,
     listThisWeek      |-> FALSE,
     listRecent        |-> <<>>]

\* one flag of the command line and the value given to it
FlagSettings ==
    { <<"ProjectID", <<>>>>,
      <<"listFormat", <<"x","m","l">>>>,
      <<"listPaidBy", <<"f","o">>>>,
      <<"listPaidBy", <<"z","z">>>>,
      <<"listPaidFor", << <<"F","O","O">>, <<"b","a","r">> >>>>,
      <<"listAmount", <<">","=","5","0">>>>,
      <<"listAmount", <<"a","b","c">>>>,
      <<"listName", <<"d","i","n">>>>,
      <<"listPaymentMethod", <<"1">>>>,
      <<"listCategory", <<"z","z">>>>,
      <<"listToday", TRUE>>,
      <<"listDate", <<"<","=","0","1","-","0","1">>>>,
      <<"listDate", <<"2","0","2","6","-","0","2","-","3","0">>>>,
      <<"listThisMonth", TRUE>>,
      <<"listThisWeek", TRUE>>,
      <<"listRecent", <<"1","d">>>>,
      <<"listRecent", <<"7","x">>>> }

WithFlag(flags, setting) == [flags EXCEPT ![setting[1]] = setting[2]]

\* the settings that are also tried together with each of the others
CombinedSettings ==
    { <<"listPaidBy", <<"f","o">>>>,
      <<"listAmount", <<"a","b","c">>>>,
      <<"listThisWeek", TRUE>> }

\* the command lines that give one flag, alone or with one of CombinedSettings
CommandLines ==
    { WithFlag(DefaultFlags, a) : a \in FlagSettings } \cup
    { WithFlag(WithFlag(DefaultFlags, a), b) : a \in FlagSettings, b \in CombinedSettings }

\* the places where buildFilters reads the wall clock, in program order
clockSites == << "today", "date", "month", "week", "recent" >>

ReadsClock(flags, site) ==
    CASE site = "today"  -> flags.listToday
      [] site = "date"   -> flags.listDate # <<>>
      [] site = "month"  -> flags.listThisMonth
      [] site = "week"   -> flags.listThisWeek
      [] site = "recent" -> flags.listRecent # <<>>

\* how many of the first i places this command line reads
ReadsUpTo(flags, i) == Cardinality({ j \in 1..i : ReadsClock(flags, clockSites[j]) })

\* the date at hour t
DateAt(t, start) == CivilFromDays(DaysFromCivil(start) + (22 + t) \div 24)

\* the dates the reads see when the hour ends just before read number turn
\* of this run (turn = 0: not during the run)
Clock(flags, turn, t, start) ==
    [ site \in { clockSites[i] : i \in 1..Len(clockSites) } |->
        LET i == CHOOSE k \in 1..Len(clockSites) : clockSites[k] = site
        IN  DateAt(IF turn # 0 /\ ReadsUpTo(flags, i) >= turn THEN t + 1 ELSE t, start) ]

StartDates == { [y |-> 2026, m |-> 12, d |-> 31] }

InitList ==
    /\ startDate \in StartDates
    /\ cmd = NotRun
    /\ outcome = NoOutcome
    /\ now = 0
    /\ fs \in { EmptyStore, [EmptyStore EXCEPT !.dir = "blocked"] }
    /\ lastSave = [id \in ProjectIDs |-> NoSave]
    /\ ret = NoRet
    /\ ResolveIdle
    /\ FilterIdle
    /\ RaceIdle
    /\ SymbolIdle
    /\ WireIdle
    /\ LoginIdle
    /\ ParseIdle

\* one run of "cospend list"
RunList(flags, fault, turn) ==
    LET r    == runList(fs, now, flags, Server, fault, Clock(flags, turn, now, startDate))
        path == flags.ProjectID \o jsonSuffix
    IN  /\ ~cmd.run
        /\ turn \in 0..ReadsUpTo(flags, Len(clockSites))
        /\ turn # 0 => now < MaxTime
        /\ cmd' = [run |-> TRUE, flags |-> flags, fault |-> fault, turn |-> turn,
                   hit |-> flags.ProjectID \in ProjectIDs /\ Load(fs, now, flags.ProjectID).found]
        /\ outcome' = r
        /\ fs' = r.fs
        /\ now' = IF turn # 0 THEN now + 1 ELSE now
        /\ lastSave' = IF flags.ProjectID \in ProjectIDs /\ r.fs.files[path] # fs.files[path]
                       THEN [lastSave EXCEPT ![flags.ProjectID] =
                                [valid |-> TRUE, project |-> Server.project, at |-> now,
                                 overwrote |-> FALSE]]
                       ELSE lastSave
        /\ ret' = NoRet
        /\ UNCHANGED startDate
        /\ UNCHANGED <<resolveVars, filterVars, raceVars, symbolVars, parseVars, wireVars, loginVars>>

\* the process ends
Exit ==
    /\ cmd.run
    /\ cmd' = NotRun
    /\ outcome' = NoOutcome
    /\ UNCHANGED startDate
    /\ UNCHANGED <<cacheVars, resolveVars, filterVars, raceVars, symbolVars, parseVars, wireVars, loginVars>>

\* an hour passes between two runs
TickBetweenRuns == ~cmd.run /\ Tick

NextList ==
    \/ /\ ~cmd.run
       /\ \E flags \in CommandLines, fault \in Faults, turn \in 0..Len(clockSites) :
              RunList(flags, fault, turn)
    \/ Exit
    \/ TickBetweenRuns

SpecList == InitList /\ [][NextList]_vars

----------------------------------------------------------------------------
(* Runs of the add, info and list commands, one process after the other on  *)
(* the same cache directory, which may start with an entry that an earlier  *)
(* run left, and whose files may lose their write permission between runs.  *)

\* the configuration file: the authenticated user
Config == [User |-> <<"f","o">>]

\* the project as an earlier fetch saw it, before member Bar joined
EarlierProject ==
    ProjectOf(<<"p","1">>, << [ID |-> 1, Name |-> <<"F","o","o">>, UserID |-> <<"f","o">>] >>)

\* a cache directory that holds EarlierProject, saved at hour 0
EarlierStore ==
    [dir   |-> "present",
     files |-> [path \in Paths |->
                  IF path = <<"p","1">> \o jsonSuffix
                  THEN Bytes(MarshalCachedProject(
                           [Project |-> Ptr(EarlierProject), CachedAt |-> At(0)]))
                  ELSE Absent]]

\* the command line "cospend add <name> <amount> -p p1"
DefaultAddFlags ==
    [ProjectID     |-> <<"p","1">>,
     category      |-> <<>>,
     paidBy        |-> <<>>,
     paidFor       |-> <<>>,
     convertTo     |-> <<>>,
     paymentMethod |-> <<>>,
     comment       |-> <<>>]

AddSettings ==
    { <<"ProjectID", <<>>>>,
      <<"category", <<"1">>>>,
      <<"category", <<"z","z">>>>,
      <<"paidBy", <<"b","a","r">>>>,
      <<"paidBy", <<"z","z">>>>,
      <<"paidFor", << <<"F","O","O">>, <<"b","a">> >>>>,
      <<"paidFor", << <<"f","o","o">>, <<"z","z">> >>>>,
      <<"convertTo", <<"2">>>>,
      <<"convertTo", <<"e","u","r">>>>,
      <<"paymentMethod", <<"f","o","o">>>>,
      <<"paymentMethod", <<"z","z">>>>,
      <<"comment", <<"h","i">>>> }

\* the settings that are also tried together with each of the others
CombinedAddSettings ==
    { <<"category", <<"z","z">>>>,
      <<"paidBy", <<"b","a","r">>>> }

AddCommandLines ==
    { WithFlag(DefaultAddFlags, a) : a \in AddSettings } \cup
    { WithFlag(WithFlag(DefaultAddFlags, a), b) : a \in AddSettings, b \in CombinedAddSettings }

AddArgs == { << <<"T","a","x","i">>, <<"2","5",".","5","0">> >>,
             << <<"T","a","x","i">>, <<"a","b","c">> >> }

AddFaults == {"none", "config", "project", "create"}

InfoCommandLines == [ProjectID : { <<>>, <<"p","1">> }, infoCached : BOOLEAN]

InfoFaults == {"none", "config", "userinfo", "project"}

\* the list command lines run next to add and info
FewListCommandLines ==
    { DefaultFlags,
      WithFlag(DefaultFlags, <<"listPaidBy", <<"b","a">>>>),
      WithFlag(DefaultFlags, <<"listAmount", <<"a","b","c">>>>) }

InitCmd ==
    /\ startDate \in StartDates
    /\ cmd = NotRun
    /\ outcome = NoOutcome
    /\ now = 0
    /\ fs \in { EmptyStore, [EmptyStore EXCEPT !.dir = "blocked"], EarlierStore }
    /\ lastSave = [id \in ProjectIDs |-> NoSave]
    /\ ret = NoRet
    /\ ResolveIdle
    /\ FilterIdle
    /\ RaceIdle
    /\ SymbolIdle
    /\ WireIdle
    /\ LoginIdle
    /\ ParseIdle

\* a process ran command name and left r; found and foundUserInfo are what
\* Load and LoadUserInfo would have returned when it started
Ran(name, args, flags, fault, r) ==
    LET path == flags.ProjectID \o jsonSuffix
    IN  /\ ~cmd.run
        /\ cmd' = [run |-> TRUE, name |-> name, args |-> args, flags |-> flags,
                   fault |-> fault, at |-> now,
                   found |-> flags.ProjectID \in ProjectIDs
                                 /\ Load(fs, now, flags.ProjectID).found,
                   foundUserInfo |-> LoadUserInfo(fs, now).found]
        /\ outcome' = r
        /\ fs' = r.fs
        /\ lastSave' = IF flags.ProjectID \in ProjectIDs /\ r.fs.files[path] # fs.files[path]
                       THEN [lastSave EXCEPT ![flags.ProjectID] =
                                [valid |-> TRUE, project |-> Server.project, at |-> now,
                                 overwrote |-> FALSE]]
                       ELSE lastSave
        /\ ret' = NoRet
        /\ UNCHANGED <<now, startDate>>
        /\ UNCHANGED <<resolveVars, filterVars, raceVars, symbolVars, parseVars, wireVars, loginVars>>

\* one run of "cospend add"
AddRun(args, flags, fault) ==
    Ran("add", args, flags, fault,
        runAdd(fs, now, args, flags, Config, Server, fault, DateAt(now, startDate)))

\* one run of "cospend info"
InfoRun(flags, fault) ==
    Ran("info", <<>>, flags, fault, runInfo(fs, now, flags, Server, fault))

\* one run of "cospend list"
ListRun(flags, fault) ==
    Ran("list", <<>>, flags, fault,
        runList(fs, now, flags, Server, fault, Clock(flags, 0, now, startDate)))

\* a cache file loses its write permission between two runs
EnvProtect(path) ==
    /\ ~cmd.run
    /\ fs.files[path] # Unreadable
    /\ EnvWrite(path, Unreadable)

NextCmd ==
    \/ \E args \in AddArgs, flags \in AddCommandLines, fault \in AddFaults :
           AddRun(args, flags, fault)
    \/ \E flags \in InfoCommandLines, fault \in InfoFaults : InfoRun(flags, fault)
    \/ \E flags \in FewListCommandLines, fault \in Faults : ListRun(flags, fault)
    \/ Exit
    \/ TickBetweenRuns
    \/ \E path \in { <<"p","1">> \o jsonSuffix, userInfoPath } : EnvProtect(path)

SpecCmd == InitCmd /\ [][NextCmd]_vars

----------------------------------------------------------------------------
(* cmd: the delete command, and runs of delete, add and list whose command  *)
(* lines are not all well made.  args is <<bill_id>>.                       *)

\* what a run of delete leaves: as for list, and the bill ID it asked the
\* server to delete (0 when it asked for none)
DeleteOutcome(err, requests, f, silenced, billID) ==
    [err |-> err, requests |-> requests, warnings |-> <<>>, fs |-> f,
     SilenceUsage |-> silenced, billID |-> billID]

\* a bug: the error of strconv.Atoi is dropped
runDeleteIgnoresAtoiError(f, args, flags, fault) ==
    IF flags.ProjectID = <<>>
    THEN DeleteOutcome("project is required", <<>>, f, FALSE, 0)
    ELSE
    Bind(Atoi(args[1]), LAMBDA billID :
    IF fault = "config"
    THEN DeleteOutcome("loading configuration", <<>>, f, TRUE, 0)
    ELSE DeleteOutcome(IF fault = "delete" THEN "deleting bill" ELSE "",
                       <<"DeleteBill">>, f, TRUE, billID.val)
    )

\* runDelete on the cache directory f, which it leaves alone; fault names the
\* one call that fails in this run ("none", "config" or "delete")
runDelete(f, args, flags, fault) ==
    IF flags.ProjectID = <<>>
    THEN DeleteOutcome("project is required", <<>>, f, FALSE, 0)
    ELSE
    Bind(Atoi(args[1]), LAMBDA billID :
    IF billID.err
    THEN DeleteOutcome("invalid bill ID", <<>>, f, FALSE, 0)
    ELSE IF fault = "config"
    THEN DeleteOutcome("loading configuration", <<>>, f, TRUE, 0)
    ELSE DeleteOutcome(IF fault = "delete" THEN "deleting bill" ELSE "",
                       <<"DeleteBill">>, f, TRUE, billID.val)
    )

DeleteFaults == {"none", "config", "delete"}

\* the bill IDs typed: "12", "-3", "not-a-number", "1.5", "12x" and ""
DeleteArgs ==
    { << <<"1","2">> >>,
      << <<"-","3">> >>,
      << <<"n","o","t","-","a","-","n","u","m","b","e","r">> >>,
      << <<"1",".","5">> >>,
      << <<"1","2","x">> >>,
      << <<>> >> }

\* "cospend delete <bill_id>" with and without -p
DeleteCommandLines == [ProjectID : { <<>>, <<"p","1">> }]

\* "cospend add <name> <amount>" with and without -p
AddLinesToValidate ==
    { DefaultAddFlags, WithFlag(DefaultAddFlags, <<"ProjectID", <<>>>>) }

\* "cospend list" with and without -p, in a format it has and in one it lacks
ListLinesToValidate ==
    { WithFlag(WithFlag(DefaultFlags, <<"ProjectID", id>>), <<"listFormat", format>>) :
          id \in { <<>>, <<"p","1">> },
          format \in { <<"c","s","v">>, <<"x","m","l">>, <<>> } }

\* one run of "cospend delete"
DeleteRun(args, flags, fault) ==
    Ran("delete", args, flags, fault, runDelete(fs, args, flags, fault))

NextValidate ==
    \/ \E args \in DeleteArgs, flags \in DeleteCommandLines, fault \in DeleteFaults :
           DeleteRun(args, flags, fault)
    \/ \E args \in AddArgs, flags \in AddLinesToValidate, fault \in AddFaults :
           AddRun(args, flags, fault)
    \/ \E flags \in ListLinesToValidate, fault \in Faults : ListRun(flags, fault)
    \/ Exit
    \/ TickBetweenRuns

SpecValidate == InitCmd /\ [][NextValidate]_vars

----------------------------------------------------------------------------
(* One process in Load and up to MaxWriters processes in Save, all of the   *)
(* same project ID, their system calls interleaved in any order.            *)

RaceProjectID == <<"p","1">>

\* the project as two fetches returned it: between them member Foo was
\* replaced by Bar (and so was the category of that name)
RaceProjects ==
    { ProjectOf(RaceProjectID, << [ID |-> 1, Name |-> <<"F","o","o">>, UserID |-> <<"f","o">>] >>),
      ProjectOf(RaceProjectID, << [ID |-> 1, Name |-> <<"B","a","r">>, UserID |-> <<"b","a">>] >>) }

\* the text Save writes for project at hour t
SavedBlocks(project, t) ==
    FileBlocks(MarshalCachedProject([Project |-> Ptr(project), CachedAt |-> At(t)]))

\* the file as a Save of EarlierProject left it before the race
EarlierFile == [exists |-> TRUE, data |-> SavedBlocks(EarlierProject, 0)]

\* a cache directory whose file of the project holds the bytes read
StoreHolding(json) ==
    [dir   |-> "present",
     files |-> [path \in Paths |->
                  IF path = RaceProjectID \o jsonSuffix THEN Bytes(json) ELSE Absent]]

InitRace ==
    /\ disk \in { NoFile, EarlierFile }
    /\ writers \in [1..MaxWriters -> [pc : {"start"}, project : { Ptr(p) : p \in RaceProjects }]]
    /\ reader = [IdleReader EXCEPT !.pc = "start"]
    /\ CacheIdle
    /\ ResolveIdle
    /\ FilterIdle
    /\ ListIdle
    /\ SymbolIdle
    /\ WireIdle
    /\ LoginIdle
    /\ ParseIdle

\* Save, in os.WriteFile: the file is opened, created if need be, and cut to
\* length 0
SaveOpen(w) ==
    /\ writers[w].pc = "start"
    /\ writers' = [writers EXCEPT ![w].pc = "opened"]
    /\ disk' = OpenTruncate(disk)
    /\ UNCHANGED reader
    /\ UNCHANGED <<resolveVars, cacheVars, filterVars, listVars, symbolVars, parseVars, wireVars, loginVars>>

\* Save, in os.WriteFile: the text is written and the file closed
SaveWrite(w) ==
    /\ writers[w].pc = "opened"
    /\ writers' = [writers EXCEPT ![w].pc = "done"]
    /\ disk' = WriteBlocks(disk, SavedBlocks(writers[w].project.val, now))
    /\ UNCHANGED reader
    /\ UNCHANGED <<resolveVars, cacheVars, filterVars, listVars, symbolVars, parseVars, wireVars, loginVars>>

\* Load, in os.ReadFile: the file is opened, or is not there
LoadOpen ==
    /\ reader.pc = "start"
    /\ reader' = IF disk.exists THEN [reader EXCEPT !.pc = "opened"]
                 ELSE [reader EXCEPT !.pc = "done",
                                     !.result = [done |-> TRUE, found |-> FALSE,
                                                 project |-> NilPtr]]
    /\ UNCHANGED <<disk, writers>>
    /\ UNCHANGED <<resolveVars, cacheVars, filterVars, listVars, symbolVars, parseVars, wireVars, loginVars>>

\* Load, in os.ReadFile: the buffer is made for the size the file has now
LoadStat ==
    /\ reader.pc = "opened"
    /\ reader' = [reader EXCEPT !.pc = "reading", !.cap = ReadFileCap(disk)]
    /\ UNCHANGED <<disk, writers>>
    /\ UNCHANGED <<resolveVars, cacheVars, filterVars, listVars, symbolVars, parseVars, wireVars, loginVars>>

\* Load, in os.ReadFile: one read into the room left in the buffer, which
\* grows when it is full; at the end of the file the bytes read are decoded
\* and the rest of Load runs on them
LoadRead ==
    LET got == ReadBlocks(disk, Len(reader.buf), reader.cap - Len(reader.buf))
        buf == reader.buf \o got
        ld  == Load(StoreHolding(ParseBlocks(reader.buf)), now, RaceProjectID)
    IN  /\ reader.pc = "reading"
        /\ reader' = IF got = <<>>
                     THEN [reader EXCEPT !.pc = "done",
                                         !.result = [done |-> TRUE, found |-> ld.found,
                                                     project |-> ld.project]]
                     ELSE [reader EXCEPT !.buf = buf,
                                         !.cap = IF Len(buf) >= reader.cap
                                                 THEN 2 * reader.cap ELSE reader.cap]
        /\ UNCHANGED <<disk, writers>>
        /\ UNCHANGED <<resolveVars, cacheVars, filterVars, listVars, symbolVars, parseVars, wireVars, loginVars>>

NextRace ==
    \/ \E w \in 1..MaxWriters : SaveOpen(w)
    \/ \E w \in 1..MaxWriters : SaveWrite(w)
    \/ LoadOpen
    \/ LoadStat
    \/ LoadRead

SpecRace == InitRace /\ [][NextRace]_vars

----------------------------------------------------------------------------
(* Calls of SymbolToISO in one process after the other. *)

InitSymbol ==
    /\ SymbolIdle
    /\ WireIdle
    /\ LoginIdle
    /\ ParseIdle
    /\ CacheIdle
    /\ ResolveIdle
    /\ FilterIdle
    /\ ListIdle
    /\ RaceIdle

\* the maps that symbolToISOOnce.Do can leave
PossibleMaps == { buildSymbolToISOMap(lastOf) : lastOf \in RangeOrders }

\* the first call of a process builds the map, every call looks symbol up
CallSymbolToISO(symbol) ==
    \E m \in (IF symbolToISOMap.isNil THEN PossibleMaps ELSE {symbolToISOMap.val}) :
        /\ symbolToISOMap' = Ptr(m)
        /\ isoSeen' = [isoSeen EXCEPT ![symbol] = @ \cup {SymbolToISO(m, symbol)}]
        /\ UNCHANGED <<resolveVars, cacheVars, filterVars, listVars, raceVars, parseVars, wireVars, loginVars>>

\* the process ends; the next one starts with the package variables unset
ProcessEnds ==
    /\ ~symbolToISOMap.isNil
    /\ symbolToISOMap' = NilPtr
    /\ UNCHANGED isoSeen
    /\ UNCHANGED <<resolveVars, cacheVars, filterVars, listVars, raceVars, parseVars, wireVars, loginVars>>

NextSymbol ==
    \/ \E symbol \in SymbolInputs : CallSymbolToISO(symbol)
    \/ ProcessEnds

SpecSymbol == InitSymbol /\ [][NextSymbol]_vars

----------------------------------------------------------------------------
(* The filter expressions of the list command on bounded inputs: one       *)
(* expression is parsed on the date dateNow, and the filter that comes of  *)
(* it is put to a bill of every amount, or of every date, in a range.      *)

\* white space around a part of the expression
Pads == { <<>>, <<" ">> }

\* the operators as they are typed, and typing none
TypedOperators == { <<>>, <<">","=">>, <<"<","=">>, <<">">>, <<"<">>, <<"=">> }

OperatorChars == { ">", "<", "=" }

\* the expression as typed: an operator, perhaps a gap, and the operand,
\* with or without white space around them
Typed(e) == e.around \o e.op \o e.gap \o e.operand.text \o e.around

\* the operand does not run into the operator before it
TypedApart(e) ==
    \/ e.operand.text = <<>>
    \/ Head(e.operand.text) \notin OperatorChars
    \/ /\ e.op # <<>>
       /\ e.gap # <<>> \/ e.op \in { <<">","=">>, <<"<","=">>, <<"=">> }

\* operands of --amount; the value of a number is in hundredths
AmountOperands ==
    { [text |-> <<"5","0">>,             numeric |-> TRUE,  value |-> 5000],
      [text |-> <<"4","9",".","9","9">>, numeric |-> TRUE,  value |-> 4999],
      [text |-> <<"7","5",".","5">>,     numeric |-> TRUE,  value |-> 7550],
      [text |-> <<"0">>,                 numeric |-> TRUE,  value |-> 0],
      [text |-> <<"-","5">>,             numeric |-> TRUE,  value |-> -500],
      [text |-> <<"+","7",".","5">>,     numeric |-> TRUE,  value |-> 750],
      [text |-> <<".","5">>,             numeric |-> TRUE,  value |-> 50],
      [text |-> <<"5",".">>,             numeric |-> TRUE,  value |-> 500],
      [text |-> <<>>,                    numeric |-> FALSE, value |-> 0],
      [text |-> <<"a","b","c">>,         numeric |-> FALSE, value |-> 0],
      [text |-> <<"5",",","0">>,         numeric |-> FALSE, value |-> 0],
      [text |-> <<"5"," ","0">>,         numeric |-> FALSE, value |-> 0],
      [text |-> <<"1",".","2",".","3">>, numeric |-> FALSE, value |-> 0],
      [text |-> <<"-">>,                 numeric |-> FALSE, value |-> 0],
      [text |-> <<"=","5">>,             numeric |-> FALSE, value |-> 0],
      [text |-> <<">","5">>,             numeric |-> FALSE, value |-> 0] }

AmountExpressions ==
    { e \in [around : Pads, op : TypedOperators, gap : Pads, operand : AmountOperands] :
        TypedApart(e) }

\* the amounts of the bills: each operand's value and the hundredth on either side
ProbeAmounts ==
    { o.value + k : <<o, k>> \in { o \in AmountOperands : o.numeric } \X {-1, 0, 1} }

\* the n days from first on
DaysFrom(first, n) == { AddDate(first, 0, i) : i \in 0..(n - 1) }

\* the dates on which the command runs: two weeks across the end of a year,
\* the ends of months, and days of a leap year
Todays ==
    DaysFrom([y |-> 2026, m |-> 12, d |-> 26], 14)
    \cup { [y |-> 2026, m |-> 1, d |-> 30], [y |-> 2026, m |-> 1, d |-> 31],
           [y |-> 2026, m |-> 3, d |-> 29], [y |-> 2026, m |-> 3, d |-> 30],
           [y |-> 2026, m |-> 3, d |-> 31], [y |-> 2026, m |-> 5, d |-> 31],
           [y |-> 2028, m |-> 2, d |-> 29], [y |-> 2028, m |-> 3, d |-> 31] }

\* the dates of the bills
firstBillDay == [y |-> 2025, m |-> 12, d |-> 1]
lastBillDay == [y |-> 2027, m |-> 1, d |-> 20]

BillDays ==
    { CivilFromDays(n) : n \in DaysFromCivil(firstBillDay)..DaysFromCivil(lastBillDay) }

BillOn(day) == [BillNo(1) EXCEPT !.Date = FormatDate(day)]

\* operands of --date: a full date, a month and day, or neither
DateOperands ==
    { [text |-> <<"2","0","2","6","-","0","1","-","1","5">>, form |-> "full",
       y |-> 2026, m |-> 1, d |-> 15],
      [text |-> <<"2","0","2","6","-","1","2","-","3","1">>, form |-> "full",
       y |-> 2026, m |-> 12, d |-> 31],
      [text |-> <<"2","0","2","6","-","0","3","-","0","1">>, form |-> "full",
       y |-> 2026, m |-> 3, d |-> 1],
      [text |-> <<"2","0","2","4","-","0","2","-","2","9">>, form |-> "full",
       y |-> 2024, m |-> 2, d |-> 29],
      [text |-> <<"0","1","-","1","5">>, form |-> "short", y |-> 0, m |-> 1, d |-> 15],
      [text |-> <<"1","2","-","3","1">>, form |-> "short", y |-> 0, m |-> 12, d |-> 31],
      [text |-> <<"0","3","-","0","1">>, form |-> "short", y |-> 0, m |-> 3, d |-> 1],
      [text |-> <<"0","2","-","2","9">>, form |-> "short", y |-> 0, m |-> 2, d |-> 29],
      [text |-> <<>>, form |-> "other", y |-> 0, m |-> 0, d |-> 0],
      [text |-> <<"n","o","t","-","a","-","d","a","t","e">>, form |-> "other",
       y |-> 0, m |-> 0, d |-> 0],
      [text |-> <<"2","0","2","6","-","0","2","-","2","9">>, form |-> "other",
       y |-> 0, m |-> 0, d |-> 0],
      [text |-> <<"2","0","2","6","-","1","3","-","0","1">>, form |-> "other",
       y |-> 0, m |-> 0, d |-> 0],
      [text |-> <<"2","0","2","6","-","1","-","1","5">>, form |-> "other",
       y |-> 0, m |-> 0, d |-> 0],
      [text |-> <<"1","3","-","4","0">>, form |-> "other", y |-> 0, m |-> 0, d |-> 0],
      [text |-> <<"0","2","-","3","0">>, form |-> "other", y |-> 0, m |-> 0, d |-> 0],
      [text |-> <<"1","-","1","5">>, form |-> "other", y |-> 0, m |-> 0, d |-> 0],
      [text |-> <<"=","0","1","-","1","5">>, form |-> "other", y |-> 0, m |-> 0, d |-> 0] }

DateExpressions ==
    { e \in [around : Pads, op : TypedOperators, gap : Pads, operand : DateOperands] :
        TypedApart(e) /\ e.gap = e.around }

\* operands of --recent: a count and a unit, or neither
RecentOperands ==
    { [text |-> <<"0","d">>,     wellMade |-> TRUE,  n |-> 0,  unit |-> "d"],
      [text |-> <<"1","d">>,     wellMade |-> TRUE,  n |-> 1,  unit |-> "d"],
      [text |-> <<"7","d">>,     wellMade |-> TRUE,  n |-> 7,  unit |-> "d"],
      [text |-> <<"3","0","d">>, wellMade |-> TRUE,  n |-> 30, unit |-> "d"],
      [text |-> <<"-","1","d">>, wellMade |-> TRUE,  n |-> -1, unit |-> "d"],
      [text |-> <<"1","w">>,     wellMade |-> TRUE,  n |-> 1,  unit |-> "w"],
      [text |-> <<"2","w">>,     wellMade |-> TRUE,  n |-> 2,  unit |-> "w"],
      [text |-> <<"+","1","w">>, wellMade |-> TRUE,  n |-> 1,  unit |-> "w"],
      [text |-> <<"0","m">>,     wellMade |-> TRUE,  n |-> 0,  unit |-> "m"],
      [text |-> <<"1","m">>,     wellMade |-> TRUE,  n |-> 1,  unit |-> "m"],
      [text |-> <<"2","m">>,     wellMade |-> TRUE,  n |-> 2,  unit |-> "m"],
      [text |-> <<"1","2","m">>, wellMade |-> TRUE,  n |-> 12, unit |-> "m"],
      [text |-> <<"d">>,         wellMade |-> FALSE, n |-> 0,  unit |-> ""],
      [text |-> <<"7">>,         wellMade |-> FALSE, n |-> 0,  unit |-> ""],
      [text |-> <<"1","4">>,     wellMade |-> FALSE, n |-> 0,  unit |-> ""],
      [text |-> <<"7","x">>,     wellMade |-> FALSE, n |-> 0,  unit |-> ""],
      [text |-> <<"x","d">>,     wellMade |-> FALSE, n |-> 0,  unit |-> ""],
      [text |-> <<"1",".","5","d">>, wellMade |-> FALSE, n |-> 0, unit |-> ""],
      [text |-> <<"7"," ","d">>, wellMade |-> FALSE, n |-> 0,  unit |-> ""],
      [text |-> <<"7","d","d">>, wellMade |-> FALSE, n |-> 0,  unit |-> ""] }

RecentExpressions == [around : Pads, operand : RecentOperands]

TypedRecent(e) == e.around \o e.operand.text \o e.around

\* every time.Now() of one buildFilters sees the date day
ClockOn(day) == [ site \in { clockSites[i] : i \in 1..Len(clockSites) } |-> day ]

\* the days of the bills that every filter of buildFilters' result accepts
AcceptedDays(r) ==
    IF r.err # "" THEN {}
    ELSE { b \in BillDays :
             \A i \in 1..Len(r.filters) : FilterAccepts(r.filters[i], BillOn(b)) }

InitParse ==
    /\ dateNow \in Todays
    /\ parsed = NotParsed
    /\ CacheIdle
    /\ ResolveIdle
    /\ FilterIdle
    /\ ListIdle
    /\ RaceIdle
    /\ SymbolIdle
    /\ WireIdle
    /\ LoginIdle

\* parseAmountFilter(s), and matchAmount on what it returns
CallParseAmountFilter(e) ==
    /\ parsed = NotParsed
    /\ parsed' = Bind(parseAmountFilter(Typed(e)), LAMBDA r :
                     [fn |-> "parseAmountFilter", input |-> Typed(e), err |-> r.err,
                      af |-> r.af,
                      accepted |-> IF r.err THEN {}
                                   ELSE { a \in ProbeAmounts : matchAmount(a, r.af) }])
    /\ UNCHANGED dateNow
    /\ UNCHANGED <<resolveVars, cacheVars, filterVars, listVars, raceVars, symbolVars, wireVars, loginVars>>

\* parseDateFilter(s), and matchDate on what it returns
CallParseDateFilter(e) ==
    /\ parsed = NotParsed
    /\ parsed' = Bind(parseDateFilter(Typed(e), dateNow.y), LAMBDA r :
                     [fn |-> "parseDateFilter", input |-> Typed(e), err |-> r.err,
                      df |-> r.df,
                      accepted |-> IF r.err THEN {}
                                   ELSE { b \in BillDays : matchDate(FormatDate(b), r.df) }])
    /\ UNCHANGED dateNow
    /\ UNCHANGED <<resolveVars, cacheVars, filterVars, listVars, raceVars, symbolVars, wireVars, loginVars>>

\* buildFilters of "list --recent s", and its filter on every bill
CallRecent(e) ==
    /\ parsed = NotParsed
    /\ parsed' = Bind(buildFilters(NilPtr, [DefaultFlags EXCEPT !.listRecent = TypedRecent(e)],
                                   ClockOn(dateNow)),
                      LAMBDA r :
                     [fn |-> "recent", input |-> TypedRecent(e), err |-> r.err # "",
                      accepted |-> AcceptedDays(r)])
    /\ UNCHANGED dateNow
    /\ UNCHANGED <<resolveVars, cacheVars, filterVars, listVars, raceVars, symbolVars, wireVars, loginVars>>

\* buildFilters of "list --this-week", and its filter on every bill
CallThisWeek ==
    /\ parsed = NotParsed
    /\ parsed' = Bind(buildFilters(NilPtr, [DefaultFlags EXCEPT !.listThisWeek = TRUE],
                                   ClockOn(dateNow)),
                      LAMBDA r :
                     [fn |-> "this-week", input |-> <<>>, err |-> r.err # "",
                      accepted |-> AcceptedDays(r)])
    /\ UNCHANGED dateNow
    /\ UNCHANGED <<resolveVars, cacheVars, filterVars, listVars, raceVars, symbolVars, wireVars, loginVars>>

NextParse ==
    \/ \E e \in AmountExpressions : CallParseAmountFilter(e)
    \/ \E e \in DateExpressions : CallParseDateFilter(e)
    \/ \E e \in RecentExpressions : CallRecent(e)
    \/ CallThisWeek

SpecParse == InitParse /\ [][NextParse]_vars

----------------------------------------------------------------------------
(* buildFilters of "list --today" with --this-month, --this-week or both,  *)
(* with midnight falling before any one of its reads of the clock.         *)

\* the dates the reads of one buildFilters see when day ends just before
\* read number turn (turn = 0: not during the call)
ClockTurning(flags, turn, day) ==
    [ site \in { clockSites[i] : i \in 1..Len(clockSites) } |->
        LET i == CHOOSE k \in 1..Len(clockSites) : clockSites[k] = site
        IN  IF turn # 0 /\ ReadsUpTo(flags, i) >= turn THEN AddDate(day, 0, 1) ELSE day ]

\* "list --today" with one or both of --this-month and --this-week
TodayLines ==
    { [DefaultFlags EXCEPT !.listToday = TRUE, !.listThisMonth = month, !.listThisWeek = week] :
          month, week \in BOOLEAN } \ { [DefaultFlags EXCEPT !.listToday = TRUE] }

\* the days of the bills that the filters of that kind accept
AcceptedBy(r, kind) ==
    { b \in BillDays :
        \A i \in 1..Len(r.filters) :
            r.filters[i].kind = kind => FilterAccepts(r.filters[i], BillOn(b)) }

\* buildFilters of the command line, and each of its filters on every bill
CallTodayWith(flags, turn) ==
    /\ parsed = NotParsed
    /\ turn <= ReadsUpTo(flags, Len(clockSites))
    /\ parsed' = Bind(buildFilters(NilPtr, flags, ClockTurning(flags, turn, dateNow)),
                      LAMBDA r :
                     [fn |-> "today-with", input |-> <<>>, err |-> r.err # "",
                      month |-> flags.listThisMonth, week |-> flags.listThisWeek,
                      turn |-> turn,
                      accepted |-> AcceptedDays(r),
                      today |-> AcceptedBy(r, "today"),
                      thisMonth |-> AcceptedBy(r, "month"),
                      thisWeek |-> AcceptedBy(r, "week")])
    /\ UNCHANGED dateNow
    /\ UNCHANGED <<resolveVars, cacheVars, filterVars, listVars, raceVars, symbolVars, wireVars, loginVars>>

NextMidnight ==
    \E flags \in TodayLines, turn \in 0..Len(clockSites) : CallTodayWith(flags, turn)

SpecMidnight == InitParse /\ [][NextMidnight]_vars

----------------------------------------------------------------------------
(* The owed-members filter of the list command: "list --for a --for b" is  *)
(* built against a project and put to bills with every list of owers.     *)

OwedMembers ==
    << [ID |-> 1, Name |-> <<"F","o","o">>, UserID |-> <<"f","o">>],
       [ID |-> 2, Name |-> <<"B","a","r">>, UserID |-> <<"b","a">>],
       [ID |-> 3, Name |-> <<"B","a","z">>, UserID |-> <<>>] >>

\* the project with all three members, and without the last of them
OwedProjects ==
    { ProjectOf(<<"p","1">>, OwedMembers),
      ProjectOf(<<"p","1">>, SubSeq(OwedMembers, 1, 2)) }

\* what is typed after --for
OwedUsernames == { <<"f","o","o">>, <<"B","A","R">>, <<"b","a","z">>, <<"n","o","n","e">> }

MaxFor == 3
MaxOwers == 3

\* the owers of a bill, as the server lists them
OwerLists == { MapSeq(ids, LAMBDA id : [ID |-> id]) : ids \in SeqsUpTo(1..3, MaxOwers) }

BillOwedBy(owers) == [BillNo(1) EXCEPT !.Owers = owers]

InitOwed ==
    /\ rProject \in OwedProjects
    /\ rToken = <<>>
    /\ rResult = NoCall
    /\ ParseIdle
    /\ CacheIdle
    /\ FilterIdle
    /\ ListIdle
    /\ RaceIdle
    /\ SymbolIdle
    /\ WireIdle
    /\ LoginIdle

\* buildFilters of "list --for ...", and its filter on every bill
CallOwed(usernames) ==
    /\ parsed = NotParsed
    /\ parsed' = Bind(buildFilters(Ptr(rProject), [DefaultFlags EXCEPT !.listPaidFor = usernames],
                                   ClockOn(dateNow)),
                      LAMBDA r :
                     [fn |-> "owed", input |-> usernames, err |-> r.err # "",
                      accepted |-> IF r.err # "" THEN {}
                                   ELSE { owers \in OwerLists :
                                            \A i \in 1..Len(r.filters) :
                                                FilterAccepts(r.filters[i], BillOwedBy(owers)) }])
    /\ UNCHANGED dateNow
    /\ UNCHANGED <<resolveVars, cacheVars, filterVars, listVars, raceVars, symbolVars, wireVars, loginVars>>

NextOwed == \E usernames \in SeqsUpTo(OwedUsernames, MaxFor) : CallOwed(usernames)

SpecOwed == InitOwed /\ [][NextOwed]_vars

----------------------------------------------------------------------------
(* The project as the server sends it: categories and payment modes come   *)
(* as an array or as an object keyed by ID.  Every run that fetches the    *)
(* project decodes it anew, the object through a Go map whose range order  *)
(* is any; the run then resolves the token against what it decoded.        *)

\* the categories (and payment modes) of the server
WireEntities ==
    { [ID |-> 1, Name |-> <<"F","o","o","d">>],
      [ID |-> 2, Name |-> <<"F","a","s","t"," ","f","o","o","d">>],
      [ID |-> 3, Name |-> <<"F","u","e","l">>] }

\* the sequences that list every element of S once
RECURSIVE Enumerations(_)
Enumerations(S) ==
    IF S = {} THEN { <<>> }
    ELSE UNION { { <<x>> \o q : q \in Enumerations(S \ {x}) } : x \in S }

\* the key of an entity in the object form
KeyOf(e) == << DigitChar(e.ID) >>

\* the value of an entity on the wire; own says what id the value carries:
\* the entity's ("same"), another ("other") or none ("absent")
WireValue(e, own) ==
    CASE own = "same"   -> JObject([id |-> JNumber(e.ID), name |-> JString(e.Name)])
      [] own = "other"  -> JObject([id |-> JNumber(e.ID + 4), name |-> JString(e.Name)])
      [] own = "absent" -> JObject([name |-> JString(e.Name)])

\* the array form, in the order listed, and the object form
WireArray(listed) == JArray([i \in 1..Len(listed) |-> WireValue(listed[i], "same")])

WireObject(ents, own) ==
    JObject([k \in { KeyOf(e) : e \in ents } |->
                WireValue(CHOOSE e \in ents : KeyOf(e) = k, own)])

\* the response to GetProject with these categories and payment modes
WireProject(collection) ==
    JObject([id           |-> JString(<<"p","1">>),
             name         |-> JString(<<"T","r","i","p">>),
             currencyname |-> JString(<<"$">>),
             members      |-> JArray(<<>>),
             currencies   |-> JArray(<<>>),
             categories   |-> collection,
             paymentmodes |-> collection])

\* the orders in which the server lists entities in an array: by ID, up or down
Listings(ents) ==
    { q \in Enumerations(ents) :
        \/ \A i \in 1..(Len(q) - 1) : q[i].ID < q[i + 1].ID
        \/ \A i \in 1..(Len(q) - 1) : q[i].ID > q[i + 1].ID }

OwnIDs == {"same", "other", "absent"}

WireCollections ==
    { WireArray(listed) : listed \in UNION { Listings(ents) : ents \in SUBSET WireEntities } }
    \cup { WireObject(ents, own) : ents \in SUBSET WireEntities, own \in OwnIDs }

\* json.Unmarshal of an object into a Go map, and the orders in which a
\* range over that map can visit it; any other value is left as it is
DecodedForms(collection) ==
    IF collection.t = "object"
    THEN { JKeyed([i \in 1..Len(keys) |-> <<keys[i], collection.v[keys[i]]>>]) :
             keys \in Enumerations(DOMAIN collection.v) }
    ELSE { collection }

WireTokens == { <<"2">>, <<"f","o","o","d">>, <<"F","O","O">>, <<"u","e">> }

NoneSeen == [fn \in {"ResolveCategory", "ResolvePaymentMode"} |-> {}]

InitWire ==
    /\ wire \in { WireProject(c) : c \in WireCollections }
    /\ idsSeen = NoneSeen
    /\ rProject = ProjectOf(<<"p","1">>, <<>>)
    /\ rToken \in WireTokens
    /\ rResult = NoCall
    /\ LoginIdle
    /\ CacheIdle
    /\ FilterIdle
    /\ ListIdle
    /\ RaceIdle
    /\ SymbolIdle
    /\ ParseIdle

\* a run fetches the project: Project.UnmarshalJSON on the response
FetchProject ==
    \E categories \in DecodedForms(wire.v.categories),
       paymentmodes \in DecodedForms(wire.v.paymentmodes) :
        /\ rProject' = UnmarshalProject(
                           [wire EXCEPT !.v.categories = categories,
                                        !.v.paymentmodes = paymentmodes]).val
        /\ rResult' = [NoCall EXCEPT !.fn = "GetProject"]
        /\ UNCHANGED <<rToken, wire, idsSeen>>
        /\ UNCHANGED <<cacheVars, filterVars, listVars, raceVars, symbolVars, parseVars,
                       loginVars>>

\* the run resolves the token as a category or as a payment mode
ResolveFetched(fn) ==
    /\ rResult.fn = "GetProject"
    /\ rResult' = Returned(fn, IF fn = "ResolveCategory"
                               THEN ResolveCategory(rProject, rToken)
                               ELSE ResolvePaymentMode(rProject, rToken))
    /\ idsSeen' = [idsSeen EXCEPT ![fn] = @ \cup { rResult'.id }]
    /\ UNCHANGED <<rProject, rToken, wire>>
    /\ UNCHANGED <<cacheVars, filterVars, listVars, raceVars, symbolVars, parseVars,
                   loginVars>>

NextWire ==
    \/ FetchProject
    \/ \E fn \in {"ResolveCategory", "ResolvePaymentMode"} : ResolveFetched(fn)

SpecWire == InitWire /\ [][NextWire]_vars

----------------------------------------------------------------------------
(* cmd: resolveBillNames, as far as it orders and limits the bills.  A     *)
(* bill here is [ID, Date, Timestamp].                                     *)

\* a bug: bills of one date are left in any order
billLessDateOnly(a, b) == StringLess(b.Date, a.Date)

\* the less function given to sort.Slice: a goes before b
billLess(a, b) ==
    IF a.Date # b.Date THEN StringLess(b.Date, a.Date)
    ELSE a.Timestamp > b.Timestamp

\* sort.Slice: the bills in an order in which no bill goes before an earlier
\* one; the sort is not stable, so bills that less does not tell apart may
\* come out in any order
SortSlice(bills) ==
    { q \in Enumerations({ bills[i] : i \in 1..Len(bills) }) :
        \A i, j \in 1..Len(q) : i < j => ~billLess(q[j], q[i]) }

\* "if listLimit > 0 && len(bills) > listLimit { bills = bills[:listLimit] }"
limitBills(bills, limit) ==
    IF limit > 0 /\ Len(bills) > limit THEN SubSeq(bills, 1, limit) ELSE bills

\* most bills handed to resolveBillNames (their IDs are 1..MaxSorted)
MaxSorted == 4

\* bill i: the first is of 31 December, the others of 1 January; bills of
\* even ID share date and timestamp
SortBill(i) ==
    [ID        |-> i,
     Date      |-> FormatDate(AddDate([y |-> 2026, m |-> 12, d |-> 31], 0, IF i <= 1 THEN 0 ELSE 1)),
     Timestamp |-> 100 + (i % 2)]

InitSort ==
    /\ fBills \in DistinctSeqs({ SortBill(i) : i \in 1..MaxSorted }, MaxSorted)
    /\ fFilters = <<>>
    /\ fResult = [done |-> FALSE]
    /\ listLimit \in -1..(MaxSorted + 1)
    /\ poll = NotPolling
    /\ CacheIdle
    /\ ResolveIdle
    /\ ListIdle
    /\ RaceIdle
    /\ SymbolIdle
    /\ ParseIdle
    /\ WireIdle

\* resolveBillNames(project, bills): the bills it goes on to print
CallResolveBillNames ==
    /\ ~fResult.done
    /\ \E sorted \in SortSlice(fBills) :
           fResult' = [done |-> TRUE, bills |-> limitBills(sorted, listLimit)]
    /\ UNCHANGED <<fBills, fFilters, listLimit, poll>>
    /\ UNCHANGED <<resolveVars, cacheVars, listVars, raceVars, symbolVars, parseVars, wireVars>>

NextSort == CallResolveBillNames

SpecSort == InitSort /\ [][NextSort]_vars

----------------------------------------------------------------------------
(* cmd: pollForLogin.  Time is in seconds since the function was entered,  *)
(* on the monotonic clock that time.Now and Time.Before go by.             *)

\* "time.Sleep(2 * time.Second)"
pollInterval == 2

\* "&http.Client{Timeout: 10 * time.Second}": the longest a request and the
\* reading of its response take
clientTimeout == 10

\* "time.Now().Add(20 * time.Minute)"
loginValidity == 1200

\* most seconds time.Sleep oversleeps
MaxLag == 1

\* what becomes of one request: the server answers 200 with a body that
\* decodes or with one that does not, 404 or another status, or client.Do
\* returns an error (no connection, or the timeout)
Responses == {"200", "200 undecodable", "404", "500", "transport error"}

\* the seconds a request takes
Durations == {0, 1, clientTimeout}

\* pollForLogin in the loop condition, elapsed seconds in
Polling(elapsed, response, replied) ==
    [pc |-> "check", elapsed |-> elapsed, response |-> response,
     replied |-> replied, polled |-> FALSE, err |-> "", result |-> FALSE]

\* a bug: every status but 200 is waited out
afterResponseRetriesAnyStatus(p, response, took) ==
    LET q == [p EXCEPT !.elapsed = p.elapsed + took, !.response = response,
                       !.replied = p.elapsed + took]
    IN  IF response = "200" THEN [q EXCEPT !.pc = "returned", !.result = TRUE]
        ELSE IF response = "200 undecodable"
        THEN [q EXCEPT !.pc = "returned", !.err = "parsing login result"]
        ELSE [q EXCEPT !.pc = "sleep"]

\* the loop body from the return of client.Do on
afterResponse(p, response, took) ==
    LET q == [p EXCEPT !.elapsed = p.elapsed + took, !.response = response,
                       !.replied = p.elapsed + took]
    IN  IF response = "transport error" THEN [q EXCEPT !.pc = "sleep"]
        ELSE IF response = "200" THEN [q EXCEPT !.pc = "returned", !.result = TRUE]
        ELSE IF response = "200 undecodable"
        THEN [q EXCEPT !.pc = "returned", !.err = "parsing login result"]
        ELSE IF response = "404" THEN [q EXCEPT !.pc = "sleep"]
        ELSE [q EXCEPT !.pc = "returned", !.err = "unexpected status during polling"]

InitLogin ==
    /\ poll = NotPolling
    /\ listLimit = 0
    /\ CacheIdle
    /\ FilterIdle
    /\ ResolveIdle
    /\ ListIdle
    /\ RaceIdle
    /\ SymbolIdle
    /\ ParseIdle
    /\ WireIdle

LoginUnchanged ==
    /\ UNCHANGED listLimit
    /\ UNCHANGED <<resolveVars, cacheVars, filterVars, listVars, raceVars, symbolVars,
                   parseVars, wireVars>>

\* pollForLogin is entered: the client and the deadline are made
EnterPollForLogin ==
    /\ poll.pc = "idle"
    /\ poll' = Polling(0, "none", 0)
    /\ LoginUnchanged

\* "for time.Now().Before(deadline)" holds and the request is sent
SendRequest ==
    /\ poll.pc = "check"
    /\ poll.elapsed < loginValidity
    /\ poll' = [poll EXCEPT !.pc = "request", !.polled = TRUE]
    /\ LoginUnchanged

\* "for time.Now().Before(deadline)" holds and http.NewRequest fails
NewRequestFails ==
    /\ poll.pc = "check"
    /\ poll.elapsed < loginValidity
    /\ poll' = [poll EXCEPT !.pc = "sleep", !.response = "no request",
                            !.replied = poll.elapsed]
    /\ LoginUnchanged

\* "for time.Now().Before(deadline)" fails
DeadlinePassed ==
    /\ poll.pc = "check"
    /\ poll.elapsed >= loginValidity
    /\ poll' = [poll EXCEPT !.pc = "returned",
                            !.err = "authentication timed out (20 minutes)"]
    /\ LoginUnchanged

\* client.Do returns
Respond(response, took) ==
    /\ poll.pc = "request"
    /\ poll' = afterResponse(poll, response, took)
    /\ LoginUnchanged

\* time.Sleep returns
Wake(lag) ==
    /\ poll.pc = "sleep"
    /\ poll' = [poll EXCEPT !.pc = "check", !.elapsed = poll.elapsed + pollInterval + lag]
    /\ LoginUnchanged

NextLogin ==
    \/ EnterPollForLogin
    \/ SendRequest
    \/ NewRequestFails
    \/ DeadlinePassed
    \/ \E response \in Responses, took \in Durations : Respond(response, took)
    \/ \E lag \in 0..MaxLag : Wake(lag)

SpecLogin == InitLogin /\ [][NextLogin]_vars

\* the process is scheduled, time.Sleep returns, and the client's timeout
\* makes client.Do return
LiveLogin == SpecLogin /\ WF_vars(NextLogin)

----------------------------------------------------------------------------
(* Claims about the resolvers (checked under SpecResolve) *)

\* equality of two strings ignoring the case of ASCII letters
SameLetter(c, d) ==
    \/ c = d
    \/ c \in DOMAIN UpperToLower /\ UpperToLower[c] = d
    \/ d \in DOMAIN UpperToLower /\ UpperToLower[d] = c
EqualFold(s, t) == Len(s) = Len(t) /\ \A i \in 1..Len(s) : SameLetter(s[i], t[i])

\* t occurs in s, ignoring case
ContainsFold(s, t) ==
    \E i \in 1..(Len(s) - Len(t) + 1) : EqualFold(SubSeq(s, i, i + Len(t) - 1), t)

\* the collection a resolver ranges over
CollectionFor(fn) ==
    CASE fn = "ResolveMember"      -> rProject.Members.elems
      [] fn = "ResolveCategory"    -> rProject.Categories.elems
      [] fn = "ResolvePaymentMode" -> rProject.PaymentModes.elems
      [] fn = "ResolveCurrency"    -> rProject.Currencies.elems
      [] OTHER                     -> <<>>

\* the token is a decimal integer string naming the ID of an entity of coll
TokenIsIDIn(coll) ==
    /\ rToken # <<>>
    /\ \A i \in 1..Len(rToken) : rToken[i] \in Digits
    /\ \E i \in 1..Len(coll) : coll[i].ID = DecimalVal(rToken)

\* the first entity of coll, in collection order, that satisfies P
FirstWith(coll, P(_)) ==
    LET S == {i \in 1..Len(coll) : P(coll[i])}
    IN  coll[CHOOSE i \in S : \A j \in S : i <= j]

\* C4 as stated: in every reference collection, members included, a token
\* that is the decimal ID of an entity resolves to that ID.
C4_IDMatchWinsEverywhere ==
    rResult.fn # "none" =>
        (TokenIsIDIn(CollectionFor(rResult.fn)) =>
            rResult = Returned(rResult.fn, Found(DecimalVal(rToken))))

\* C4 where the ID of a member is asked for: ResolveMember("1") on a project
\* whose only member has ID 1 finds nothing
C4_MemberIDNotFound ==
    /\ rResult.fn = "ResolveMember"
    /\ rToken = <<"1">>
    /\ Len(rProject.Members.elems) = 1
    /\ rProject.Members.elems[1].ID = 1
    /\ rResult.err /\ rResult.id = 0

\* C4 without the members: for categories, payment modes and currencies a
\* token that is the decimal ID of an entity resolves to that ID, even when
\* the same string is the name of another entity earlier in the collection.
C4_IDMatchWins ==
    rResult.fn \in {"ResolveCategory", "ResolvePaymentMode", "ResolveCurrency"} =>
        (TokenIsIDIn(CollectionFor(rResult.fn)) =>
            rResult = Returned(rResult.fn, Found(DecimalVal(rToken))))

\* C4 for a category: "2" is the ID of the second category and the name of
\* the first
C4_CategoryIDWins ==
    /\ rResult.fn = "ResolveCategory"
    /\ rToken = <<"2">>
    /\ Len(rProject.Categories.elems) = 2
    /\ rProject.Categories.elems[1] = [ID |-> 1, Name |-> <<"2">>]
    /\ rProject.Categories.elems[2].ID = 2
    /\ rResult.id = 2 /\ ~rResult.err

\* C5: for categories and payment modes, with no ID match, an exact
\* case-insensitive name match is preferred to any substring match; without
\* one the first entity whose name contains the token is returned, and
\* several substring hits are no error.  For members and currencies a token
\* that only occurs inside a name resolves to nothing.  (Non-empty tokens:
\* the empty token is C7's.)
C5_ExactBeforeSubstring ==
    LET coll       == CollectionFor(rResult.fn)
        isExact(e) == EqualFold(e.Name, rToken)
        isSub(e)   == ContainsFold(e.Name, rToken)
        anyExact   == \E i \in 1..Len(coll) : isExact(coll[i])
        anySub     == \E i \in 1..Len(coll) : isSub(coll[i])
    IN  /\ ( /\ rResult.fn \in {"ResolveCategory", "ResolvePaymentMode"}
             /\ rToken # <<>>
             /\ ~TokenIsIDIn(coll) )
           => /\ anyExact => rResult.id = FirstWith(coll, isExact).ID /\ ~rResult.err
              /\ (~anyExact /\ anySub) =>
                     rResult.id = FirstWith(coll, isSub).ID /\ ~rResult.err
              /\ ~anySub => rResult.err
        /\ ( /\ rResult.fn = "ResolveMember"
             /\ \A i \in 1..Len(coll) :
                    ~EqualFold(coll[i].Name, rToken) /\ ~EqualFold(coll[i].UserID, rToken) )
           => rResult.err
        /\ ( /\ rResult.fn = "ResolveCurrency"
             /\ ~TokenIsIDIn(coll)
             /\ ~anyExact
             /\ ToLower(rToken) \notin DOMAIN currencyCodeToSymbol )
           => rResult.err

\* C5 witness: "fo" is inside the first payment mode's name and is, ignoring
\* case, the whole name of the second, which is returned
C5_Witness ==
    /\ rResult.fn = "ResolvePaymentMode"
    /\ rToken = <<"f","o">>
    /\ Len(rProject.PaymentModes.elems) = 2
    /\ rProject.PaymentModes.elems[1].Name = <<"F","o","o">>
    /\ rProject.PaymentModes.elems[2].Name = <<"F","O">>
    /\ rResult.id = rProject.PaymentModes.elems[2].ID /\ ~rResult.err

\* C6: ResolveCurrency tries the ID, then the exact case-insensitive name,
\* and only then the currency code: the first currency whose name contains
\* the code's symbol.  An unknown code, or a symbol that is in no name, is
\* not found.
C6_CurrencyOrder ==
    LET coll       == rProject.Currencies.elems
        isExact(e) == EqualFold(e.Name, rToken)
        anyExact   == \E i \in 1..Len(coll) : isExact(coll[i])
        code       == ToLower(rToken)
        known      == code \in DOMAIN currencyCodeToSymbol
        hasSym(e)  == Contains(e.Name, currencyCodeToSymbol[code])
        anySym     == known /\ \E i \in 1..Len(coll) : hasSym(coll[i])
    IN  rResult.fn = "ResolveCurrency" =>
          /\ TokenIsIDIn(coll) => rResult.id = DecimalVal(rToken) /\ ~rResult.err
          /\ (~TokenIsIDIn(coll) /\ anyExact) =>
                 rResult.id = FirstWith(coll, isExact).ID /\ ~rResult.err
          /\ (~TokenIsIDIn(coll) /\ ~anyExact /\ anySym) =>
                 rResult.id = FirstWith(coll, hasSym).ID /\ ~rResult.err
          /\ (~TokenIsIDIn(coll) /\ ~anyExact /\ ~anySym) => rResult.err

\* C6 witness: "usd" is the code of "$", the first currency's name, and is,
\* ignoring case, the name of the second, which is returned
C6_Witness ==
    /\ rResult.fn = "ResolveCurrency"
    /\ rToken = <<"u","s","d">>
    /\ Len(rProject.Currencies.elems) = 2
    /\ rProject.Currencies.elems[1].Name = <<"$">>
    /\ rProject.Currencies.elems[2].Name = <<"U","S","D">>
    /\ rResult.id = rProject.Currencies.elems[2].ID /\ ~rResult.err

\* C7 as stated: every resolver answers the empty token with not-found.
C7_EmptyTokenNotFound ==
    (rResult.fn # "none" /\ rToken = <<>>) => rResult.err

\* C7 for a member without a user ID: ResolveMember("") returns that member
C7_EmptyTokenMatchesMember ==
    /\ rResult.fn = "ResolveMember"
    /\ rToken = <<>>
    /\ Len(rProject.Members.elems) = 1
    /\ rProject.Members.elems[1].UserID = <<>>
    /\ ~rResult.err /\ rResult.id = rProject.Members.elems[1].ID

----------------------------------------------------------------------------
(* Claims about the cache store (checked under SpecCache) *)

\* the cache file a Load or LoadUserInfo that just returned has read
FileRead ==
    IF ret.op = "Load" THEN fs.files[ret.id \o jsonSuffix] ELSE fs.files[userInfoPath]

\* what the call just made returned as payload
Payload == IF ret.op = "Load" THEN ret.project ELSE ret.userInfo

\* C1 as stated: a Load within the TTL of the last successful Save of the
\* same ID finds a project equal in every field to the one last saved.
C1_LoadReturnsLastSaved ==
    ( /\ ret.op = "Load"
      /\ lastSave[ret.id].valid
      /\ now - lastSave[ret.id].at <= cacheTTL )
    => /\ ret.found
       /\ ret.project = Ptr(lastSave[ret.id].project)

\* a project as the cache gives it back: a nil Categories or PaymentModes
\* slice has become an empty one, every other field is as it was
NilAsEmpty(sl) == [isNil |-> FALSE, elems |-> sl.elems]
AsLoaded(p) ==
    [p EXCEPT !.Categories = NilAsEmpty(p.Categories),
              !.PaymentModes = NilAsEmpty(p.PaymentModes)]

\* C1 amended: a Load within the TTL of the last successful Save of the same
\* ID finds the project last saved, with nothing of an earlier one, equal in
\* every field except that nil Categories and PaymentModes are loaded as
\* empty lists.
C1_LoadReturnsLastSavedNilAsEmpty ==
    ( /\ ret.op = "Load"
      /\ lastSave[ret.id].valid
      /\ now - lastSave[ret.id].at <= cacheTTL )
    => /\ ret.found
       /\ ret.project = Ptr(AsLoaded(lastSave[ret.id].project))

\* C1 witness: a Load that follows a Save which replaced another project
C1_Witness ==
    /\ ret.op = "Load"
    /\ lastSave[ret.id].valid
    /\ lastSave[ret.id].overwrote
    /\ ~lastSave[ret.id].project.Members.isNil
    /\ ret.found
    /\ ret.project = Ptr(lastSave[ret.id].project)

\* C2: Load and LoadUserInfo find an entry that carries a cachedAt exactly
\* when now - cachedAt <= TTL; an age equal to the TTL is still valid.
C2_ValidIffWithinTTL ==
    ( /\ ret.op \in {"Load", "LoadUserInfo"}
      /\ FileRead.kind = "bytes"
      /\ FileRead.text.t = "object"
      /\ "cached_at" \in DOMAIN FileRead.text.v )
    => (ret.found <=> now - FileRead.text.v.cached_at.v.t <= cacheTTL)

\* C2 witness: a Load that finds an entry exactly one TTL old
C2_Witness ==
    /\ ret.op = "Load"
    /\ FileRead.kind = "bytes"
    /\ FileRead.text.t = "object"
    /\ "cached_at" \in DOMAIN FileRead.text.v
    /\ now - FileRead.text.v.cached_at.v.t = cacheTTL
    /\ ret.found

\* C3: Load and LoadUserInfo return (nil, false), and nothing else, when the
\* cache directory is missing or cannot be created, and when the file is
\* absent, unreadable, malformed or expired.  (Their results have no error
\* component.)
C3_FailuresAreMisses ==
    LET unusable ==
          \/ fs.dir # "present"
          \/ FileRead.kind \in {"absent", "unreadable"}
          \/ FileRead.kind = "bytes" /\ FileRead.text.t # "object"
          \/ /\ FileRead.kind = "bytes" /\ FileRead.text.t = "object"
             /\ \/ "cached_at" \notin DOMAIN FileRead.text.v
                \/ now - FileRead.text.v.cached_at.v.t > cacheTTL
    IN  (ret.op \in {"Load", "LoadUserInfo"} /\ unusable)
        => ~ret.found /\ Payload = NilPtr

\* C3 witness: a Load of a file that is not JSON
C3_Witness ==
    /\ ret.op = "Load"
    /\ FileRead = Bytes(InvalidJSON)
    /\ ~ret.found

----------------------------------------------------------------------------
(* Claims about applyFilters (checked under SpecFilter) *)

PassesAll(bill) == \A i \in 1..Len(fFilters) : FilterAccepts(fFilters[i], bill)

\* the filters in another order
Reordered(perm) == [i \in 1..Len(fFilters) |-> fFilters[perm[i]]]

\* C9: applyFilters returns exactly the bills that every filter accepts, in
\* their original order; all bills when there is no filter; and the same
\* bills whatever the order of the filters.
C9_ApplyFiltersIsConjunction ==
    fResult.done =>
        /\ fResult.bills = SelectSeq(fBills, PassesAll)
        /\ fFilters = <<>> => fResult.bills = fBills
        /\ \A perm \in Permutations(1..Len(fFilters)) :
               applyFilters(fBills, Reordered(perm)) = fResult.bills

\* C9 witness: two different filters reject one of three bills and the two
\* others come back in the order they had, which is not the order of their IDs
C9_Witness ==
    /\ fResult.done
    /\ Len(fFilters) = 2
    /\ fFilters[1] # fFilters[2]
    /\ Len(fBills) = 3
    /\ Len(fResult.bills) = 2
    /\ fResult.bills[1].ID > fResult.bills[2].ID

----------------------------------------------------------------------------
(* Claims about the list command (checked under SpecList) *)

MalformedAmount(flags) == flags.listAmount # <<>> /\ parseAmountFilter(flags.listAmount).err
MalformedDate(flags)   == flags.listDate # <<>> /\ parseDateFilter(flags.listDate, startDate.y).err
MalformedRecent(flags) ==
    flags.listRecent # <<>> /\ parseRecent(flags.listRecent, startDate).err

Malformed(flags) == MalformedAmount(flags) \/ MalformedDate(flags) \/ MalformedRecent(flags)

\* C10: a run of the list command whose --amount, --date or --recent
\* expression is malformed ends with an error and has sent no request to the
\* API (no project, bills or user-info request).
C10_ParseFailureBeforeNetwork ==
    (cmd.run /\ Malformed(cmd.flags)) =>
        /\ outcome.err # ""
        /\ outcome.requests = <<>>

\* C10, as the program behaves: the malformed expression does end the run
\* with its parse error whenever the run gets as far as building the
\* filters, but by then the bills (and, on a cache miss, the project and the
\* user info) have been requested.
C10_ParseFailureAfterRequests ==
    (cmd.run /\ outcome.err \in {"parsing amount filter", "parsing date filter",
                                 "parsing recent filter"}) =>
        /\ Malformed(cmd.flags)
        /\ \E i \in 1..Len(outcome.requests) : outcome.requests[i] = "GetBills"
        /\ (~cmd.hit => outcome.requests[1] = "GetProject")

\* the run "cospend list -p p1 --amount abc" on an empty cache: rejected with
\* the parse error after three requests
C10_Witness ==
    /\ cmd.run
    /\ cmd.flags = [DefaultFlags EXCEPT !.listAmount = <<"a","b","c">>]
    /\ outcome.err = "parsing amount filter"
    /\ outcome.requests = <<"GetProject", "GetBills", "GetUserInfo">>

----------------------------------------------------------------------------
(* Claims about the commands (checked under SpecCmd) *)

Requested(request) ==
    \E i \in 1..Len(outcome.requests) : outcome.requests[i] = request

Warned(warning) ==
    \E i \in 1..Len(outcome.warnings) : outcome.warnings[i] = warning

RanCmd(name) == cmd.run /\ cmd.name = name

\* the tokens of an add command line, each with the resolver it goes to
PayerToken(flags) == IF flags.paidBy = <<>> THEN Config.User ELSE flags.paidBy

AllResolved(project, flags) ==
    /\ ~ResolveMember(project, PayerToken(flags)).err
    /\ \A i \in 1..Len(flags.paidFor) : ~ResolveMember(project, flags.paidFor[i]).err
    /\ flags.category # <<>> => ~ResolveCategory(project, flags.category).err
    /\ flags.paymentMethod # <<>> => ~ResolvePaymentMode(project, flags.paymentMethod).err
    /\ flags.convertTo # <<>> => ~ResolveCurrency(project, flags.convertTo).err

ResolutionErrors ==
    {"resolving payer", "resolving owed member", "resolving category",
     "resolving payment method", "resolving currency"}

\* C11: a run of add calls CreateBill only when the payer, every owed member
\* and every supplied category, payment method and currency token resolved
\* against the project of the run, and then the bill carries the resolved
\* IDs; when one of them does not resolve, the run ends with a resolution
\* error, has not called CreateBill and has sent no bill.
C11_NoCreateBillUnlessResolved ==
    RanCmd("add") =>
        /\ Requested("CreateBill") =>
              /\ ~outcome.project.isNil
              /\ AllResolved(outcome.project.val, cmd.flags)
              /\ outcome.bill.sent
              /\ outcome.bill.PayerID =
                     ResolveMember(outcome.project.val, PayerToken(cmd.flags)).id
              /\ cmd.flags.category # <<>> =>
                     outcome.bill.CategoryID =
                         ResolveCategory(outcome.project.val, cmd.flags.category).id
        /\ (~outcome.project.isNil /\ ~AllResolved(outcome.project.val, cmd.flags)) =>
              /\ outcome.err \in ResolutionErrors
              /\ ~Requested("CreateBill")
              /\ ~outcome.bill.sent

\* the run "cospend add Taxi 25.50 -p p1 -b bar -c zz" on an empty cache:
\* the payer resolves, the category does not, and the run ends after the
\* project request
C11_Witness ==
    /\ RanCmd("add")
    /\ cmd.flags = [DefaultAddFlags EXCEPT !.paidBy = <<"b","a","r">>,
                                           !.category = <<"z","z">>]
    /\ outcome.err = "resolving category"
    /\ outcome.requests = <<"GetProject">>

\* the run got as far as needing the project
NeededProject ==
    CASE RanCmd("list") ->
             outcome.err \notin {"project is required", "unsupported format",
                                 "loading configuration"}
      [] RanCmd("add") ->
             outcome.err \notin {"project is required", "invalid amount",
                                 "loading configuration"}
      [] RanCmd("info") ->
             /\ cmd.flags.ProjectID # <<>>
             /\ outcome.err \notin {"loading configuration", "fetching user info"}
      [] OTHER -> FALSE

\* the run fetched the project and cached it without a warning
FetchedAndSaved ==
    /\ Requested("GetProject")
    /\ outcome.err # "fetching project"
    /\ ~Warned("failed to cache project")

\* the cache entry of the run's project, as Load returns it at hour t
EntryAt(t) == Load(fs, t, cmd.flags.ProjectID)

\* C12, as stated: in list, add and info the project is requested exactly
\* when Load of the project ID misses at the start of the run, and a project
\* that was fetched and saved is returned by Load within the TTL.
C12_ProjectRequestedOnlyOnMiss ==
    NeededProject =>
        /\ Requested("GetProject") <=> ~cmd.found
        /\ FetchedAndSaved =>
               /\ EntryAt(cmd.at + cacheTTL).found
               /\ EntryAt(cmd.at + cacheTTL).project = Ptr(AsLoaded(Server.project))

\* the run looks the project up in the cache: list and add always, info
\* only with --cached
ConsultsCache == RanCmd("list") \/ RanCmd("add") \/ cmd.flags.infoCached

\* C12, amended: list and add, and info with --cached, request the project
\* exactly when Load of the project ID misses; info without --cached
\* requests it whatever the cache holds.  A project that was fetched is
\* saved, and unless that save failed with a warning, Load returns it from
\* then until the TTL has passed.
C12_ProjectRequestedOnMissOrByPlainInfo ==
    NeededProject =>
        /\ ConsultsCache => (Requested("GetProject") <=> ~cmd.found)
        /\ ~ConsultsCache => Requested("GetProject")
        /\ FetchedAndSaved =>
               /\ EntryAt(cmd.at).found
               /\ EntryAt(cmd.at + cacheTTL).found
               /\ EntryAt(cmd.at + cacheTTL).project = Ptr(AsLoaded(Server.project))
               /\ ~EntryAt(cmd.at + cacheTTL + 1).found

\* a run of add finds the entry that an earlier run fetched and saved, and
\* requests no project
C12_Witness ==
    /\ RanCmd("add")
    /\ NeededProject
    /\ cmd.found
    /\ lastSave[cmd.flags.ProjectID].valid
    /\ lastSave[cmd.flags.ProjectID].at < cmd.at
    /\ ~Requested("GetProject")

\* the file that a successful save of the fetched value at the hour of the
\* run leaves
SavedProjectFile ==
    Bytes(MarshalCachedProject([Project |-> Ptr(Server.project), CachedAt |-> At(cmd.at)]))

SavedUserInfoFile ==
    Bytes(MarshalCachedUserInfo([UserInfo |-> Ptr(Server.userInfo), CachedAt |-> At(cmd.at)]))

\* the run fetched the project, and the cache does not hold it afterwards
ProjectSaveFailed ==
    /\ NeededProject
    /\ Requested("GetProject")
    /\ outcome.err # "fetching project"
    /\ fs.files[cmd.flags.ProjectID \o jsonSuffix] # SavedProjectFile

\* the run fetched the user info, and the cache does not hold it afterwards
UserInfoSaveFailed ==
    /\ cmd.run
    /\ Requested("GetUserInfo")
    /\ outcome.err # "fetching user info"
    /\ ~Warned("failed to fetch user info")
    /\ fs.files[userInfoPath] # SavedUserInfoFile

\* the run went on with the project it fetched
WentOnWithProject ==
    CASE RanCmd("list") -> Requested("GetBills")
      [] OTHER          -> outcome.project = Ptr(Server.project)

\* the run went on with the user info it fetched
WentOnWithUserInfo ==
    CASE RanCmd("list") -> outcome.locale = Server.userInfo.Language
      [] OTHER          -> outcome.userInfo = Ptr(Server.userInfo)

NoCacheError ==
    outcome.err \notin {"creating cache directory", "writing cache file",
                        "writing user info cache"}

\* C13: when a run fails to save the project or the user info it fetched,
\* it writes a warning about it, does not end with that error, and goes on
\* with the fetched value.
C13_SaveFailureIsWarning ==
    /\ ProjectSaveFailed =>
           Warned("failed to cache project") /\ NoCacheError /\ WentOnWithProject
    /\ UserInfoSaveFailed =>
           Warned("failed to cache user info") /\ NoCacheError /\ WentOnWithUserInfo

\* C13, as the program behaves: a failed save never ends the run, which goes
\* on with the fetched value; the warning is written for the project in
\* every command and for the user info in list, but not for the user info
\* in info.
C13_SaveFailureNeverAborts ==
    /\ ProjectSaveFailed =>
           Warned("failed to cache project") /\ NoCacheError /\ WentOnWithProject
    /\ UserInfoSaveFailed =>
           /\ NoCacheError
           /\ WentOnWithUserInfo
           /\ Warned("failed to cache user info") <=> RanCmd("list")

\* the run "cospend info" on a cache directory that cannot be created:
\* the user info is fetched and printed, saving it fails, and nothing is
\* written about that
C13_InfoDropsUserInfoSaveError ==
    /\ RanCmd("info")
    /\ cmd.flags = [ProjectID |-> <<>>, infoCached |-> FALSE]
    /\ fs.dir = "blocked"
    /\ UserInfoSaveFailed
    /\ outcome.err = ""
    /\ outcome.warnings = <<>>

----------------------------------------------------------------------------
(* Claims about a Load that races with Saves (checked under SpecRace) *)

\* the projects that were handed whole to a Save, as Load returns them
WholeProjects == { Ptr(AsLoaded(p)) : p \in RaceProjects \cup {EarlierProject} }

\* C14: a Load that runs while other processes Save the same project ID
\* returns not-found or a project that was handed whole to some Save,
\* never parts of the projects of two Saves.
C14_LoadReturnsWholeOrNotFound ==
    reader.result.done =>
        \/ ~reader.result.found
        \/ reader.result.project \in WholeProjects

\* C14 for one Save: while at most one Save has started, Load returns
\* not-found (when it finds no file, the empty file or the text cut short)
\* or the project of the earlier Save or of this one.
C14_OneSaveWholeOrNotFound ==
    (reader.result.done /\ Cardinality({w \in 1..MaxWriters : writers[w].pc # "start"}) <= 1) =>
        \/ ~reader.result.found
        \/ reader.result.project \in WholeProjects

\* Load has returned, as found, a project with the members that one Save
\* wrote and the categories that another wrote
C14_LoadReturnsMixedProject ==
    /\ reader.result.done
    /\ reader.result.found
    /\ \E p \in RaceProjects, q \in RaceProjects :
           /\ p # q
           /\ reader.result.project.val.Members = p.Members
           /\ reader.result.project.val.Categories = q.Categories

----------------------------------------------------------------------------
(* Claims about the keys of the cache (checked under SpecCache) *)

\* what Load and LoadUserInfo return on the cache directory f at hour t
Loaded(f, t, projectID) ==
    [found |-> Load(f, t, projectID).found, project |-> Load(f, t, projectID).project]

LoadedUserInfo(f, t) == LoadUserInfo(f, t)

\* the step leaves what Load returns for projectID as it was
SameLoad(projectID) == Loaded(fs', now', projectID) = Loaded(fs, now, projectID)

SameLoadUserInfo == LoadedUserInfo(fs', now') = LoadedUserInfo(fs, now)

\* C15: a Save of a project ID leaves what LoadUserInfo returns and what
\* Load returns for every other project ID as it was, and a SaveUserInfo
\* leaves what Load returns for every project ID as it was.
C15_EntriesIndependent ==
    [][ /\ ret'.op = "Save" =>
              /\ SameLoadUserInfo
              /\ \A other \in ProjectIDs \ {ret'.id} : SameLoad(other)
        /\ ret'.op = "SaveUserInfo" =>
              \A projectID \in ProjectIDs : SameLoad(projectID)
      ]_vars

userInfoKey == <<"_","u","s","e","r","i","n","f","o">>

\* C15 for the project IDs other than "_userinfo", whose file is the one of
\* the user info: the entries of those are independent of each other and of
\* the user info.
C15_IndependentButForUserInfoKey ==
    [][ /\ (ret'.op = "Save" /\ ret'.id # userInfoKey) =>
              /\ SameLoadUserInfo
              /\ \A other \in ProjectIDs \ {ret'.id} : SameLoad(other)
        /\ ret'.op = "SaveUserInfo" =>
              \A projectID \in ProjectIDs \ {userInfoKey} : SameLoad(projectID)
      ]_vars

\* Load("_userinfo") has returned found, with no project, from the file that
\* SaveUserInfo wrote
C15_UserInfoFileLoadedAsProject ==
    /\ ret.op = "Load"
    /\ ret.id = userInfoKey
    /\ ret.found
    /\ ret.project.isNil
    /\ \E u \in SavedUserInfos, t \in 0..MaxTime :
           fs.files[userInfoPath] =
               Bytes(MarshalCachedUserInfo([UserInfo |-> Ptr(u), CachedAt |-> At(t)]))

----------------------------------------------------------------------------
(* Claims about SymbolToISO (checked under SpecSymbol) *)

IsPreferred(code) == \E i \in 1..Len(preferred) : preferred[i] = code

\* the symbol belongs to a code of the preference list
HasPreferredCode(symbol) == \E code \in CodesWithSymbol(symbol) : IsPreferred(code)

\* C16: over all calls in all processes SymbolToISO has returned one code
\* per symbol; for a symbol of a preferred code that code, in upper case,
\* and for a symbol that is not in the table the empty string.
C16_SymbolToISODeterministic ==
    \A symbol \in SymbolInputs :
        /\ Cardinality(isoSeen[symbol]) <= 1
        /\ HasPreferredCode(symbol) =>
               \A iso \in isoSeen[symbol] :
                   \E code \in CodesWithSymbol(symbol) : IsPreferred(code) /\ iso = ToUpper(code)
        /\ symbol \notin CurrencySymbols => isoSeen[symbol] \subseteq { <<>> }

\* C16 for the symbols that one code has or that a preferred code has: one
\* code per symbol over all processes; for the others every code returned
\* is one of the symbol's codes.
C16_DeterministicWhenUniqueOrPreferred ==
    \A symbol \in SymbolInputs :
        /\ (HasPreferredCode(symbol) \/ Cardinality(CodesWithSymbol(symbol)) <= 1) =>
               Cardinality(isoSeen[symbol]) <= 1
        /\ HasPreferredCode(symbol) =>
               \A iso \in isoSeen[symbol] :
                   \E code \in CodesWithSymbol(symbol) : IsPreferred(code) /\ iso = ToUpper(code)
        /\ symbol \notin CurrencySymbols => isoSeen[symbol] \subseteq { <<>> }
        /\ symbol \in CurrencySymbols =>
               \A iso \in isoSeen[symbol] :
                   \E code \in CodesWithSymbol(symbol) : iso = ToUpper(code)

\* SymbolToISO("kr") has returned "SEK" in one process and "NOK" in another
C16_KronaHasTwoCodes ==
    /\ <<"S","E","K">> \in isoSeen[<<"k","r">>]
    /\ <<"N","O","K">> \in isoSeen[<<"k","r">>]

----------------------------------------------------------------------------
(* Claims about the filter expressions (SpecParse) *)

\* a op v in the order of the numbers, op as it was typed; none typed is "="
Compares(a, op, v) ==
    CASE op = <<">","=">> -> a >= v
      [] op = <<"<","=">> -> a <= v
      [] op = <<">">>     -> a > v
      [] op = <<"<">>     -> a < v
      [] OTHER            -> a = v

\* the typed operator as a filter holds it
TypedName(op) ==
    CASE op = <<">","=">> -> ">="
      [] op = <<"<","=">> -> "<="
      [] op = <<">">>     -> ">"
      [] op = <<"<">>     -> "<"
      [] OTHER            -> "="

IsDayOf(o, year) == o.d <= DaysIn(o.m, year)

\* the day an operand names in that year
OperandDay(o, year) == [y |-> IF o.form = "full" THEN o.y ELSE year, m |-> o.m, d |-> o.d]

\* the operand of e was accepted as the day it names, and the bills the filter
\* accepts are those whose day compares so with that day
DateFilterAgrees(e) ==
    LET day == OperandDay(e.operand, dateNow.y)
    IN  /\ ~parsed.err
        /\ parsed.df.operator = TypedName(e.op)
        /\ parsed.df.date = IF e.operand.form = "full" THEN e.operand.text
                            ELSE FormatYear(dateNow.y) \o <<"-">> \o e.operand.text
        /\ parsed.accepted =
               { b \in BillDays : Compares(DaysFromCivil(b), e.op, DaysFromCivil(day)) }

C18_HoldsForDaysOfTheYear ==
    parsed.fn = "parseDateFilter" =>
        \A e \in DateExpressions :
            /\ parsed.input = Typed(e)
            /\ ~(e.operand.form = "short" /\ ~IsDayOf(e.operand, dateNow.y))
            => IF e.operand.form \in {"full", "short"}
               THEN DateFilterAgrees(e)
               ELSE parsed.err

OnOrAfterCutoff(b, o) ==
    CASE o.unit = "d" -> DaysFromCivil(b) >= DaysFromCivil(dateNow) - o.n
      [] o.unit = "w" -> DaysFromCivil(b) >= DaysFromCivil(dateNow) - 7 * o.n
      [] o.unit = "m" ->
             LET back  == dateNow.y * 12 + dateNow.m - o.n
                 month == b.y * 12 + b.m
             IN  month > back \/ (month = back /\ b.d >= dateNow.d)

DayExistsBack(o) ==
    LET back == dateNow.y * 12 + (dateNow.m - 1) - o.n
    IN  dateNow.d <= DaysIn((back % 12) + 1, back \div 12)

\* C19, for days and weeks, and for months when the earlier month has the day
C19_HoldsWhenTheDayExists ==
    parsed.fn = "recent" =>
        \A e \in RecentExpressions :
            /\ parsed.input = TypedRecent(e)
            /\ e.operand.unit = "m" => DayExistsBack(e.operand)
            => IF e.operand.wellMade
               THEN /\ ~parsed.err
                    /\ parsed.accepted = { b \in BillDays : OnOrAfterCutoff(b, e.operand) }
               ELSE parsed.err

aMonday == [y |-> 2026, m |-> 1, d |-> 5]

\* the number of the last Monday on or before day
MondayOf(day) ==
    DaysFromCivil(day) - ((DaysFromCivil(day) - DaysFromCivil(aMonday)) % 7)

\* C20: on every date, --this-week accepts exactly the bills of the seven
\* days from the Monday on or before that date to the Sunday after it.
C20_ThisWeekIsMondayToSunday ==
    parsed.fn = "this-week" =>
        /\ ~parsed.err
        /\ parsed.accepted =
               { b \in BillDays : DaysFromCivil(b) \in MondayOf(dateNow)..(MondayOf(dateNow) + 6) }

\* on Sunday 2026-12-27 the week is 21 to 27 December
C20_Witness ==
    /\ parsed.fn = "this-week"
    /\ dateNow = [y |-> 2026, m |-> 12, d |-> 27]
    /\ Cardinality(parsed.accepted) = 7
    /\ [y |-> 2026, m |-> 12, d |-> 21] \in parsed.accepted
    /\ dateNow \in parsed.accepted
    /\ [y |-> 2026, m |-> 12, d |-> 28] \notin parsed.accepted

----------------------------------------------------------------------------
(* Claims about the owed-members filter (SpecOwed) *)

\* the ID of the member of rProject that a typed name stands for, 0 for none
MemberTyped(username) ==
    LET known == CASE username = <<"f","o","o">> -> 1
                   [] username = <<"B","A","R">> -> 2
                   [] username = <<"b","a","z">> -> 3
                   [] OTHER -> 0
    IN  IF known <= Len(rProject.Members.elems) THEN known ELSE 0

RequiredIDs == { MemberTyped(parsed.input[i]) : i \in 1..Len(parsed.input) }

OwerIDs(owers) == { owers[j].ID : j \in 1..Len(owers) }

\* C21: the filter of --for accepts a bill exactly when the ID of every member
\* named is among the bill's owers, whatever other owers the bill has; a
\* name that is no member of the project is an error.
C21_OwedFilterIsSubsetTest ==
    parsed.fn = "owed" =>
        IF 0 \in RequiredIDs
        THEN parsed.err
        ELSE /\ ~parsed.err
             /\ parsed.accepted = { owers \in OwerLists : RequiredIDs \subseteq OwerIDs(owers) }

\* "--for foo --for BAR": a bill owed by all three is accepted, a bill owed
\* by Foo alone or by Bar and Baz is not
C21_Witness ==
    /\ parsed.fn = "owed"
    /\ parsed.input = << <<"f","o","o">>, <<"B","A","R">> >>
    /\ ~parsed.err
    /\ << [ID |-> 3], [ID |-> 2], [ID |-> 1] >> \in parsed.accepted
    /\ << [ID |-> 1] >> \notin parsed.accepted
    /\ << [ID |-> 2], [ID |-> 3] >> \notin parsed.accepted

----------------------------------------------------------------------------
(* Claims about the project on the wire (SpecWire) *)

\* the records of a decoded collection
RecordsOf(sl) == { sl.elems[i] : i \in 1..Len(sl.elems) }

Fetched == rResult.fn # "none"

\* C22: a project whose categories and payment modes come as an array or as
\* an object keyed by ID is decoded into one record per entity, with the
\* entity's ID and name: in the object form the ID is the number of the key,
\* whatever id the value carries, in the array form the value's id; so both
\* forms give the same records for the same entities.
C22_BothFormsGiveTheSameRecords ==
    Fetched =>
        \A ents \in SUBSET WireEntities :
            \/ \E listed \in Listings(ents) : wire.v.categories = WireArray(listed)
            \/ \E own \in OwnIDs : wire.v.categories = WireObject(ents, own)
            => /\ RecordsOf(rProject.Categories) = ents
               /\ Len(rProject.Categories.elems) = Cardinality(ents)
               /\ RecordsOf(rProject.PaymentModes) = ents
               /\ Len(rProject.PaymentModes.elems) = Cardinality(ents)

\* the object form whose values carry other ids was decoded to the three
\* entities under the IDs of their keys
C22_Witness ==
    /\ Fetched
    /\ wire.v.categories = WireObject(WireEntities, "other")
    /\ RecordsOf(rProject.Categories) = WireEntities
    /\ RecordsOf(rProject.PaymentModes) = WireEntities

\* the collection came as an object keyed by ID
ObjectKeyed == wire.v.categories.t = "object"

\* C27: for a fixed response of the server with categories and payment modes
\* as objects keyed by ID, and a fixed token, resolving the token as a
\* category or as a payment mode gives the same ID in every run, also when
\* the token matches several names by substring only.
C27_ResolutionSameInEveryRun ==
    ObjectKeyed =>
        \A fn \in DOMAIN idsSeen : Cardinality(idsSeen[fn]) <= 1

\* the names that the token matches at the first strategy that matches any:
\* the ID, then the whole name, then a part of it (letter case ignored)
WireMatches ==
    LET ents   == { [ID |-> Atoi(k).val, Name |-> wire.v.categories.v[k].v.name.v] :
                      k \in DOMAIN wire.v.categories.v }
        byID   == { e \in ents : rToken = KeyOf(e) }
        exact  == { e \in ents : EqualFold(e.Name, rToken) }
        substr == { e \in ents : ContainsFold(e.Name, rToken) }
    IN  IF byID # {} THEN byID ELSE IF exact # {} THEN exact ELSE substr

\* C27, for a token that at most one name matches
C27_SameWhenOneNameMatches ==
    ObjectKeyed /\ Cardinality(WireMatches) <= 1 =>
        \A fn \in DOMAIN idsSeen : Cardinality(idsSeen[fn]) <= 1

\* "FOO" is part of "Food" and of "Fast food": one run resolved it to
\* category 1 and another run, on the same response, to category 2
C27_SubstringResolvedTwoWays ==
    /\ ObjectKeyed
    /\ rToken = <<"F","O","O">>
    /\ idsSeen["ResolveCategory"] = {1, 2}

----------------------------------------------------------------------------
(* Claims about the order and the limit of the list output (SpecSort) *)

\* the day of a bill, as the number of its date
DayOfBill(b) ==
    DaysFromCivil(CHOOSE day \in DaysFrom([y |-> 2026, m |-> 12, d |-> 30], 4) :
                      FormatDate(day) = b.Date)

\* bill a is newer than bill b: of a later date, or of the same date and created later
Newer(a, b) ==
    \/ DayOfBill(a) > DayOfBill(b)
    \/ DayOfBill(a) = DayOfBill(b) /\ a.Timestamp > b.Timestamp

Printed == { fResult.bills[i] : i \in 1..Len(fResult.bills) }

Given == { fBills[i] : i \in 1..Len(fBills) }

\* C23: the bills come out newest first, by date and then by creation
\* timestamp; with --limit L > 0 they are the first min(L, n) bills of that
\* order, the newest of the n bills given, and with L = 0 all n of them.
C23_NewestFirstAndLimited ==
    fResult.done /\ listLimit >= 0 =>
        /\ \A i, j \in 1..Len(fResult.bills) :
               i < j => ~Newer(fResult.bills[j], fResult.bills[i])
        /\ Len(fResult.bills) = IF listLimit > 0 /\ listLimit < Len(fBills)
                                THEN listLimit ELSE Len(fBills)
        /\ Cardinality(Printed) = Len(fResult.bills)
        /\ Printed \subseteq Given
        /\ \A left \in Given \ Printed : \A b \in Printed : ~Newer(left, b)

\* four bills with --limit 2: the two printed are of 1 January, the later
\* created first, and the bill of 31 December is left out
C23_Witness ==
    /\ fResult.done
    /\ Len(fBills) = 4
    /\ fBills[1] = SortBill(1)
    /\ listLimit = 2
    /\ Len(fResult.bills) = 2
    /\ fResult.bills[1] = SortBill(3)
    /\ fResult.bills[2].Timestamp = 100

----------------------------------------------------------------------------
(* Claims about the validation of the command line (SpecValidate) *)

\* the bill IDs of DeleteArgs that are written as integers
IntegerBillIDs == { <<"1","2">>, <<"-","3">> }

\* the amounts of AddArgs that are written as numbers
NumericAmounts == { <<"2","5",".","5","0">> }

\* the command line of the run is one the command refuses
Refused ==
    \/ cmd.flags.ProjectID = <<>>
    \/ cmd.name = "delete" /\ cmd.args[1] \notin IntegerBillIDs
    \/ cmd.name = "add" /\ cmd.args[2] \notin NumericAmounts
    \/ cmd.name = "list" /\ cmd.flags.listFormat \notin
           { <<"t","a","b","l","e">>, <<"c","s","v">>, <<"j","s","o","n">> }

\* C24: delete with a bill ID that is no integer, add with an amount that is
\* no number, list with a format it lacks, and any of the three without a
\* project ID, return an error and send no request to the server.
C24_ValidationBeforeRequests ==
    cmd.run /\ Refused => outcome.err # "" /\ outcome.requests = <<>>

\* "cospend delete not-a-number -p p1" against a server that would answer:
\* an error, and no request was sent
C24_Witness ==
    /\ cmd.run
    /\ cmd.name = "delete"
    /\ cmd.flags.ProjectID = <<"p","1">>
    /\ cmd.args[1] = <<"n","o","t","-","a","-","n","u","m","b","e","r">>
    /\ cmd.fault = "none"
    /\ outcome.err = "invalid bill ID"
    /\ outcome.requests = <<>>

\* the commands do reach the server when the command line is well made
C24_AcceptedLinesSendRequests ==
    cmd.run /\ ~Refused /\ cmd.fault = "none" => outcome.requests # <<>>

----------------------------------------------------------------------------
(* Claims about the polling of the login flow (LiveLogin) *)

\* what pollForLogin returned agrees with the last thing that happened to it
ReturnedAsAnswered ==
    poll.pc = "returned" =>
        /\ poll.result <=> poll.response = "200"
        /\ poll.result <=> poll.err = ""
        /\ poll.response = "200 undecodable" <=> poll.err = "parsing login result"
        /\ poll.response = "500" <=> poll.err = "unexpected status during polling"
        /\ poll.err = "authentication timed out (20 minutes)" <=>
               poll.response \in {"none", "404", "transport error", "no request"}
        /\ poll.err = "authentication timed out (20 minutes)" =>
               poll.elapsed >= loginValidity

\* a 200 or another status but 404 ends the polling at once; after a 404 or
\* a transport error the next poll begins no sooner than pollInterval later
PollsOn ==
    /\ poll.pc # "idle" /\ poll.response \in {"200", "200 undecodable", "500"}
           => poll.pc = "returned"
    /\ poll.pc = "sleep" => poll.response \in {"404", "transport error", "no request"}
    /\ poll.pc \in {"check", "request"} /\ poll.response # "none"
           => poll.elapsed >= poll.replied + pollInterval
    /\ poll.pc = "request" => poll.elapsed < loginValidity

\* C25: pollForLogin always terminates: with the login result on the first
\* 200 response, with an error at once on another status but 404 or on an
\* undecodable 200 body, polling on 2 seconds after a 404 or a transport
\* error, and with the timeout error once 20 minutes passed without a 200.
C25_PollForLoginTerminates ==
    /\ []ReturnedAsAnswered
    /\ []PollsOn
    /\ [][poll.pc = "returned" => poll'.pc = "returned"]_vars
    /\ <>(poll.pc = "returned")

\* the server answered 404 until the 20 minutes were over: the timeout error
C25_Witness ==
    /\ poll.pc = "returned"
    /\ poll.response = "404"
    /\ poll.polled
    /\ poll.elapsed >= loginValidity
    /\ poll.err = "authentication timed out (20 minutes)"

----------------------------------------------------------------------------
(* Claims about what Load and LoadUserInfo hand to their callers (SpecCache) *)

\* C26: whenever Load or LoadUserInfo returns found = true, the payload it
\* returns is not nil, whatever the cache file holds.
C26_FoundPayloadIsNotNil ==
    ret.op \in {"Load", "LoadUserInfo"} /\ ret.found => ~Payload.isNil

\* the member of the entry that the call just made decodes its payload from
PayloadKey == IF ret.op = "Load" THEN "project" ELSE "user_info"

\* C26 for the entries that hold the payload: found = true comes with the
\* project or user info decoded from the file
C26_HoldsWhenEntryHasPayload ==
    ( /\ ret.op \in {"Load", "LoadUserInfo"}
      /\ ret.found
      /\ PayloadKey \in DOMAIN FileRead.text.v
      /\ FileRead.text.v[PayloadKey].t # "null" )
    => /\ ~Payload.isNil
       /\ ret.op = "Load" => Payload.val = UnmarshalProject(FileRead.text.v.project).val
       /\ ret.op = "LoadUserInfo" => Payload.val = UnmarshalUserInfo(FileRead.text.v.user_info)

\* Load("p1") has returned found = true with a nil project, from a fresh
\* entry whose project is null
C26_LoadFoundNilProject ==
    /\ ret.op = "Load"
    /\ ret.id = <<"p","1">>
    /\ FileRead.kind = "bytes"
    /\ FileRead.text.t = "object"
    /\ "project" \in DOMAIN FileRead.text.v
    /\ FileRead.text.v.project = JNull
    /\ now - FileRead.text.v.cached_at.v.t <= cacheTTL
    /\ ret.found
    /\ ret.project.isNil

----------------------------------------------------------------------------
(* Claims about the operands that the parsers accept (SpecParse) *)

\* text is YYYY-MM-DD and names a day that the calendar has
IsCalendarDate(text) ==
    /\ Len(text) = 10
    /\ text[5] = "-" /\ text[8] = "-"
    /\ \A i \in {1, 2, 3, 4, 6, 7, 9, 10} : text[i] \in Digits
    /\ LET year  == DecimalVal(SubSeq(text, 1, 4))
           month == DecimalVal(SubSeq(text, 6, 7))
           day   == DecimalVal(SubSeq(text, 9, 10))
       IN  /\ month \in 1..12
           /\ day \in 1..DaysIn(month, year)

\* C28: the operand that parseDateFilter stores for an accepted expression
\* is a date that exists in the calendar, whatever the current year.
C28_StoredDateExists ==
    parsed.fn = "parseDateFilter" /\ ~parsed.err => IsCalendarDate(parsed.df.date)

\* C28 when the current year is a leap year, and for every stored date but
\* 29 February
C28_HoldsButFor29February ==
    ( /\ parsed.fn = "parseDateFilter"
      /\ ~parsed.err
      /\ \/ IsLeap(dateNow.y)
         \/ SubSeq(parsed.df.date, 5, Len(parsed.df.date)) # <<"-","0","2","-","2","9">> )
    => IsCalendarDate(parsed.df.date)

\* in 2026 the expression "<=02-29" was accepted and stored as 2026-02-29,
\* a day that 2026 does not have
C28_Stores29FebruaryOfCommonYear ==
    /\ parsed.fn = "parseDateFilter"
    /\ dateNow.y = 2026
    /\ parsed.input = <<"<","=","0","2","-","2","9">>
    /\ ~parsed.err
    /\ parsed.df.date = <<"2","0","2","6","-","0","2","-","2","9">>
    /\ ~IsCalendarDate(parsed.df.date)
    /\ DaysIn(2, 2026) = 28

\* the bills dated on the current day or later are all accepted: the cutoff
\* is not later than now
CutoffNotAfterNow ==
    \A b \in BillDays : DaysFromCivil(b) >= DaysFromCivil(dateNow) => b \in parsed.accepted

\* C29: for every operand that parseRecent accepts the count is not negative
\* and the cutoff is not later than now, so that --recent never excludes a
\* bill dated today.
C29_RecentNeverExcludesToday ==
    parsed.fn = "recent" /\ ~parsed.err =>
        \A e \in RecentExpressions :
            parsed.input = TypedRecent(e) => e.operand.n >= 0 /\ CutoffNotAfterNow

\* C29 for the operands whose count is written without a minus sign
C29_HoldsForUnsignedCounts ==
    parsed.fn = "recent" /\ ~parsed.err =>
        \A e \in RecentExpressions :
            parsed.input = TypedRecent(e) /\ e.operand.text[1] # "-" =>
                e.operand.n >= 0 /\ CutoffNotAfterNow

\* on 31 December 2026 "--recent -1d" was accepted: the bill of that day is
\* left out, the one of 1 January 2027 is kept
C29_MinusOneDayExcludesToday ==
    /\ parsed.fn = "recent"
    /\ parsed.input = <<"-","1","d">>
    /\ ~parsed.err
    /\ dateNow = [y |-> 2026, m |-> 12, d |-> 31]
    /\ dateNow \in BillDays
    /\ dateNow \notin parsed.accepted
    /\ [y |-> 2027, m |-> 1, d |-> 1] \in parsed.accepted

----------------------------------------------------------------------------
(* Claims about --today next to --this-month and --this-week (SpecMidnight) *)

\* C30: within one buildFilters call every bill date that the --today filter
\* accepts is also accepted by the --this-month and --this-week filters built
\* in that call, so that --today with either of them selects the bills that
\* --today alone selects.
C30_TodayWithinMonthAndWeek ==
    parsed.fn = "today-with" /\ ~parsed.err =>
        /\ parsed.today \subseteq parsed.thisMonth
        /\ parsed.today \subseteq parsed.thisWeek
        /\ parsed.accepted = parsed.today

\* C30 when the date does not change between the reads of the clock
C30_HoldsWithinOneDay ==
    parsed.fn = "today-with" /\ ~parsed.err /\ parsed.turn \in {0, 1} =>
        /\ parsed.today \subseteq parsed.thisMonth
        /\ parsed.today \subseteq parsed.thisWeek
        /\ parsed.accepted = parsed.today

\* "list --today --this-month" with midnight of 31 December between the two
\* reads: --today accepts the bills of 31 December, --this-month those of
\* January, and nothing is selected
C30_MidnightBetweenTodayAndMonth ==
    /\ parsed.fn = "today-with"
    /\ dateNow = [y |-> 2026, m |-> 12, d |-> 31]
    /\ parsed.month /\ ~parsed.week
    /\ parsed.turn = 2
    /\ parsed.today = { dateNow }
    /\ dateNow \notin parsed.thisMonth
    /\ [y |-> 2027, m |-> 1, d |-> 1] \in parsed.thisMonth
    /\ parsed.accepted = {}

\* "list --today --this-week" with midnight of Sunday 27 December between the
\* two reads: the week is the one that begins on Monday 28 December
C30_MidnightBetweenTodayAndWeek ==
    /\ parsed.fn = "today-with"
    /\ dateNow = [y |-> 2026, m |-> 12, d |-> 27]
    /\ parsed.week /\ ~parsed.month
    /\ parsed.turn = 2
    /\ parsed.today = { dateNow }
    /\ parsed.thisWeek = DaysFrom([y |-> 2026, m |-> 12, d |-> 28], 7)
    /\ parsed.accepted = {}

====
